---- MODULE Spec2Model ----
(***************************************************************************)
(* A model of the API access layer of screeps-world-mcp: ApiClient of      *)
(* src/src/utils/api.ts (response cache, recent-call history, retry with   *)
(* exponential backoff, rate-limit snapshot, loop detection) together with *)
(* the retry configuration of ConfigManager.                               *)
(*                                                                         *)
(* makeApiCall is an async function.  It runs without interruption from    *)
(* its invocation to its first await, and between two awaits; the awaits   *)
(* are the fetch, the backoff timer and response.json().  Each such        *)
(* uninterrupted segment is one action of the model, and several           *)
(* invocations (the slots Procs) interleave at the awaits.                 *)
(*                                                                         *)
(* The callers of makeApiCall are the tool handlers behind the error       *)
(* boundary of ToolRegistry (src/src/tools/index.ts); what a handler does  *)
(* once makeApiCall has returned runs in the same segment as that return.  *)
(*                                                                         *)
(* Time is Date.now() in milliseconds.  Strings the code searches in or    *)
(* concatenates (endpoints, cache keys) are sequences of tokens.           *)
(***************************************************************************)
EXTENDS Integers, Sequences, FiniteSets, TLC

VARIABLES
    now,               \* Date.now()
    config,            \* ConfigManager.getRetryConfig()
    responseCache,     \* ApiClient.responseCache: cache key -> entry
    lastRateLimitInfo, \* ApiClient.lastRateLimitInfo
    recentCalls,       \* ApiClient.recentCalls
    pc,                \* per invocation slot: where its makeApiCall is suspended
    cur,               \* per slot: index in log of the invocation it runs
    attempt,           \* per slot: fetchWithRetry's loop variable
    wakeAt,            \* per slot: when its backoff timer is due
    resp,              \* per slot: the response fetchWithRetry returned
    log,               \* history variable: one record per makeApiCall invocation
    token,             \* ConfigManager.getToken()
    tools              \* history variable: one record per tool invocation

vars == <<now, config, responseCache, lastRateLimitInfo, recentCalls,
          pc, cur, attempt, wakeAt, resp, log, token, tools>>

(* What the callers of makeApiCall own: the tool registry and its handlers *)
toolVars == <<token, tools>>

-----------------------------------------------------------------------------
(* Bounds of the exploration *)

MaxInvocations == 3        \* invocations of makeApiCall in a behaviour of Spec
MaxRetriesTried == 3       \* the largest maxRetries configured in SpecRetry
MaxRetryInvocations == 1   \* invocations in a behaviour of SpecRetry
MaxSweepInvocations == 21  \* invocations in a behaviour of SpecSweep
MaxTTLInvocations == 1    \* invocations in a behaviour of SpecTTL
MaxRateInvocations == 2   \* invocations in a behaviour of SpecRate
MaxOveruseInvocations == 5   \* invocations in a behaviour of SpecOveruse
MaxParams == 2             \* keys of a parameter mapping in SpecQuery
MaxReadInvocations == 4    \* invocations in a behaviour of SpecReads
MaxObjects == 4            \* objects of a room in SpecPages
MaxPagingInvocations == 3  \* get_room_objects calls in SpecPaging
MaxToolInvocations == 2    \* tool calls in SpecTools
MaxBackoffInvocations == 2 \* invocations in SpecBackoff
MaxRepeats == 1            \* repeated calls in a behaviour of SpecSweep
Procs == {1, 2}        \* invocation slots that may be in flight together

(* The instants the clock is read at, besides 0 and the instants the backoff
   timers are due: around the 5 s TTL and the 5 minute window *)
Instants == {5000, 295000, 299000, 300000}

-----------------------------------------------------------------------------
(* Values *)

Undefined == [undefined |-> TRUE]
NoResponse == [status |-> 0, headers |-> Undefined]

Min(a, b) == IF a < b THEN a ELSE b
Max(a, b) == IF a > b THEN a ELSE b

RECURSIVE Pow2(_)
Pow2(n) == IF n = 0 THEN 1 ELSE 2 * Pow2(n - 1)

(* String.prototype.includes on token sequences *)
Includes(s, pat) ==
    \E i \in 1..(Len(s) - Len(pat) + 1) : SubSeq(s, i, i + Len(pat) - 1) = pat

(* Endpoints *)
AuthMe == <<"/", "auth", "/", "me">>
GameTime == <<"/", "game", "/", "time">>
UserRooms == <<"/", "user", "/", "rooms">>

(* RequestInit: method "" and body "" stand for an absent field *)
NoOptions == [method |-> "", body |-> ""]
PostOptions == [method |-> "POST", body |-> "b"]
OtherPostOptions == [method |-> "POST", body |-> "c"]

(* JSON payloads of the upstream API: objects *)
Payload(id) == [ok |-> 1, data |-> id]

(* Response headers: the header's string, or "" for headers.get() = null *)
NoHeaders == [limit |-> "", remaining |-> "", reset |-> "", retryAfter |-> ""]
RateHeaders == [limit |-> "100", remaining |-> "5", reset |-> "1700000000",
                retryAfter |-> "60"]
PartialHeaders == [limit |-> "100", remaining |-> "5", reset |-> "", retryAfter |-> ""]

(* Errors thrown by fetch *)
FetchFailed == [name |-> "TypeError", message |-> <<"fetch failed">>]
ConnectionReset == [name |-> "Error", message |-> <<"read ECONNRESET">>]
NetErrors == {FetchFailed, ConnectionReset}

-----------------------------------------------------------------------------
(* Retry configuration *)

DEFAULT_RETRY_CONFIG ==
    [maxRetries |-> 3, initialDelayMs |-> 1000, maxDelayMs |-> 10000,
     retryableStatusCodes |-> {408, 429, 500, 502, 503, 504}]

-----------------------------------------------------------------------------
(* The pure parts of ApiClient *)

maxRecentCalls == 20

FiveMinutes == 5 * 60 * 1000

JSONStringify(s) == <<"\"", s, "\"">>

generateCacheKey(endpoint, options) ==
    LET method == IF options.method # "" THEN options.method ELSE "GET"
        body == IF options.body # "" THEN JSONStringify(options.body) ELSE <<>>
    IN  <<method, ":">> \o endpoint \o <<":">> \o body

getCacheTTL_MarketFirst(endpoint) ==
    IF Includes(endpoint, <<"/", "auth", "/", "me">>) THEN 15 * 60 * 1000
    ELSE IF Includes(endpoint, <<"/", "version">>) THEN 60 * 60 * 1000
    ELSE IF Includes(endpoint, <<"/", "game", "/", "world-size">>) THEN 60 * 60 * 1000
    ELSE IF Includes(endpoint, <<"/", "game", "/", "shards", "/", "info">>) THEN 10 * 60 * 1000
    ELSE IF Includes(endpoint, <<"/", "user", "/", "world-status">>) THEN 2 * 60 * 1000
    ELSE IF Includes(endpoint, <<"/", "game", "/", "time">>) THEN 5 * 1000
    ELSE IF Includes(endpoint, <<"market">>) THEN 15 * 1000
    ELSE IF Includes(endpoint, <<"/", "game", "/", "market", "/", "stats">>) THEN 60 * 1000
    ELSE IF Includes(endpoint, <<"room-terrain">>) THEN 5 * 60 * 1000
    ELSE IF Includes(endpoint, <<"room-status">>) THEN 60 * 1000
    ELSE IF Includes(endpoint, <<"room-objects">>) THEN 10 * 1000
    ELSE IF Includes(endpoint, <<"user", "/", "stats">>)
            \/ Includes(endpoint, <<"user", "/", "overview">>) THEN 30 * 1000
    ELSE 30 * 1000

getCacheTTL(endpoint) ==
    IF Includes(endpoint, <<"/", "auth", "/", "me">>) THEN 15 * 60 * 1000
    ELSE IF Includes(endpoint, <<"/", "version">>) THEN 60 * 60 * 1000
    ELSE IF Includes(endpoint, <<"/", "game", "/", "world-size">>) THEN 60 * 60 * 1000
    ELSE IF Includes(endpoint, <<"/", "game", "/", "shards", "/", "info">>) THEN 10 * 60 * 1000
    ELSE IF Includes(endpoint, <<"/", "user", "/", "world-status">>) THEN 2 * 60 * 1000
    ELSE IF Includes(endpoint, <<"/", "game", "/", "time">>) THEN 5 * 1000
    ELSE IF Includes(endpoint, <<"/", "game", "/", "market", "/", "stats">>) THEN 60 * 1000
    ELSE IF Includes(endpoint, <<"room-terrain">>) THEN 5 * 60 * 1000
    ELSE IF Includes(endpoint, <<"room-status">>) THEN 60 * 1000
    ELSE IF Includes(endpoint, <<"room-objects">>) THEN 10 * 1000
    ELSE IF Includes(endpoint, <<"user", "/", "stats">>)
            \/ Includes(endpoint, <<"user", "/", "overview">>) THEN 30 * 1000
    ELSE IF Includes(endpoint, <<"market">>) THEN 15 * 1000
    ELSE 30 * 1000

(* getCachedResult: the data of a fresh entry, else null (Undefined) ... *)
CacheValid_Seconds(entry, t) == t < entry.timestamp + entry.ttl \div 1000
CacheValid_Inclusive(entry, t) == t <= entry.timestamp + entry.ttl
CacheValid(entry, t) == t < entry.timestamp + entry.ttl

getCachedResult(cache, cacheKey, t) ==
    IF cacheKey \in DOMAIN cache /\ CacheValid(cache[cacheKey], t)
    THEN cache[cacheKey].data
    ELSE Undefined

(* ... and the cache it leaves: an expired entry of the key is deleted *)
CacheAfterLookup_PurgeAll(cache, cacheKey, t) ==
    [k \in {x \in DOMAIN cache : CacheValid(cache[x], t)} |-> cache[k]]

CacheAfterLookup_Touch(cache, cacheKey, t) ==
    IF cacheKey \in DOMAIN cache /\ ~CacheValid(cache[cacheKey], t)
    THEN [k \in DOMAIN cache \ {cacheKey} |-> cache[k]]
    ELSE [k \in DOMAIN cache |->
             IF k = cacheKey THEN [cache[k] EXCEPT !.timestamp = t] ELSE cache[k]]

CacheAfterLookup(cache, cacheKey, t) ==
    IF cacheKey \in DOMAIN cache /\ ~CacheValid(cache[cacheKey], t)
    THEN [k \in DOMAIN cache \ {cacheKey} |-> cache[k]]
    ELSE cache

setCachedResult(cache, cacheKey, data, ttl, t) ==
    [k \in DOMAIN cache \cup {cacheKey} |->
        IF k = cacheKey THEN [data |-> data, timestamp |-> t, ttl |-> ttl]
        ELSE cache[k]]

trackCall_SkipsDuplicate(calls, endpoint, cacheKey, t) ==
    LET pushed == IF calls # <<>> /\ calls[Len(calls)].cacheKey = cacheKey
                  THEN calls
                  ELSE Append(calls, [endpoint |-> endpoint, cacheKey |-> cacheKey,
                                      timestamp |-> t])
    IN  IF Len(pushed) > maxRecentCalls THEN Tail(pushed) ELSE pushed

trackCall_KeepsOneLess(calls, endpoint, cacheKey, t) ==
    LET pushed == Append(calls, [endpoint |-> endpoint, cacheKey |-> cacheKey,
                                 timestamp |-> t])
    IN  IF Len(pushed) >= maxRecentCalls THEN Tail(pushed) ELSE pushed

trackCall(calls, endpoint, cacheKey, t) ==
    LET pushed == Append(calls, [endpoint |-> endpoint, cacheKey |-> cacheKey,
                                 timestamp |-> t])
    IN  IF Len(pushed) > maxRecentCalls THEN Tail(pushed) ELSE pushed

InWindow_Inclusive(call, t) == call.timestamp >= t - FiveMinutes
InWindow(call, t) == call.timestamp > t - FiveMinutes

LoopThreshold == 2
OveruseThreshold == 5

detectLoops_Consecutive(calls, t) ==
    LET n == Len(calls)
        loops == IF n >= 2 /\ InWindow(calls[n - 1], t)
                    /\ calls[n - 1].cacheKey = calls[n].cacheKey
                 THEN {<<"LOOP", 2>>} ELSE {}
    IN  [isLoop |-> loops # {}, warnings |-> loops]

detectLoops_Above(calls, t) ==
    LET recent == SelectSeq(calls, LAMBDA c : InWindow(c, t))
        keyCount(k) == Cardinality({i \in DOMAIN recent : recent[i].cacheKey = k})
        loops == {<<"LOOP", keyCount(recent[i].cacheKey)>> :
                    i \in {j \in DOMAIN recent :
                             keyCount(recent[j].cacheKey) > LoopThreshold}}
    IN  [isLoop |-> loops # {}, warnings |-> loops]

detectLoops_OveruseIsLoop(calls, t) ==
    LET recent == SelectSeq(calls, LAMBDA c : InWindow(c, t))
        keyCount(k) == Cardinality({i \in DOMAIN recent : recent[i].cacheKey = k})
        endpointCount(e) == Cardinality({i \in DOMAIN calls : calls[i].endpoint = e})
        loops == {<<"LOOP", keyCount(recent[i].cacheKey)>> :
                    i \in {j \in DOMAIN recent :
                             keyCount(recent[j].cacheKey) >= LoopThreshold}}
        overuse == {<<"OVERUSE", calls[i].endpoint, endpointCount(calls[i].endpoint)>> :
                      i \in {j \in DOMAIN calls :
                               endpointCount(calls[j].endpoint) >= OveruseThreshold}}
    IN  [isLoop |-> loops # {} \/ overuse # {}, warnings |-> loops \cup overuse]

detectLoops(calls, t) ==
    LET recent == SelectSeq(calls, LAMBDA c : InWindow(c, t))
        keyCount(k) == Cardinality({i \in DOMAIN recent : recent[i].cacheKey = k})
        endpointCount(e) == Cardinality({i \in DOMAIN calls : calls[i].endpoint = e})
        loops == {<<"LOOP", keyCount(recent[i].cacheKey)>> :
                    i \in {j \in DOMAIN recent :
                             keyCount(recent[j].cacheKey) >= LoopThreshold}}
        overuse == {<<"OVERUSE", calls[i].endpoint, endpointCount(calls[i].endpoint)>> :
                      i \in {j \in DOMAIN calls :
                               endpointCount(calls[j].endpoint) >= OveruseThreshold}}
    IN  [isLoop |-> loops # {}, warnings |-> loops \cup overuse]

ParseInt(s) ==
    CASE s = "100" -> 100
      [] s = "5" -> 5
      [] s = "60" -> 60
      [] s = "1700000000" -> 1700000000

extractRateLimitInfo_Swapped(response) ==
    IF response.headers.limit # "" /\ response.headers.remaining # ""
       /\ response.headers.reset # ""
    THEN [limit |-> ParseInt(response.headers.remaining),
          remaining |-> ParseInt(response.headers.limit),
          resetTime |-> ParseInt(response.headers.reset)]
    ELSE Undefined

extractRateLimitInfo(response) ==
    IF response.headers.limit # "" /\ response.headers.remaining # ""
       /\ response.headers.reset # ""
    THEN [limit |-> ParseInt(response.headers.limit),
          remaining |-> ParseInt(response.headers.remaining),
          resetTime |-> ParseInt(response.headers.reset)]
    ELSE Undefined

(* Response.ok *)
Ok(status) == status >= 200 /\ status < 300

(* fetchWithRetry: a response is handed back to makeApiCall at once when ... *)
ReturnsImmediately_And(cfg, status) ==
    Ok(status) /\ status \notin cfg.retryableStatusCodes

ReturnsImmediately(cfg, status) ==
    Ok(status) \/ status \notin cfg.retryableStatusCodes

(* ... and the attempt after which nothing is retried *)
IsLastAttempt_Never(cfg, a) == FALSE
IsLastAttempt_OneLess(cfg, a) == a + 1 >= cfg.maxRetries
IsLastAttempt_OneMore(cfg, a) == a = cfg.maxRetries + 1
IsLastAttempt(cfg, a) == a = cfg.maxRetries

BackoffDelay_NoCap(cfg, a) == cfg.initialDelayMs * Pow2(a)
BackoffDelay(cfg, a) == Min(cfg.initialDelayMs * Pow2(a), cfg.maxDelayMs)

(* The errors makeApiCall throws *)
LoopError(endpoint) == [name |-> "Error", message |-> <<"LOOP DETECTED", endpoint>>]
RateLimitMessage(response) ==
    [name |-> "Error",
     message |-> <<"Rate limit exceeded",
                   IF response.headers.retryAfter # ""
                   THEN response.headers.retryAfter ELSE "unknown">>]
HttpErrorMessage(response) == [name |-> "Error", message |-> <<"HTTP", response.status>>]

ErrorOfResponse(response) ==
    IF response.status = 429 THEN RateLimitMessage(response)
    ELSE HttpErrorMessage(response)

(* The error classes of errors.ts and its type guards (instanceof): a    *)
(* RateLimitError and an AuthenticationError are ScreepsApiErrors too.   *)
ScreepsApiErrorClasses == {"ScreepsApiError", "RateLimitError", "AuthenticationError"}
isScreepsApiError(error) == error.name \in ScreepsApiErrorClasses
isRateLimitError(error) == error.name = "RateLimitError"
isAuthenticationError(error) == error.name = "AuthenticationError"
(* error.statusCode, error.code, error.retryAfter: undefined on a plain Error *)
Property(error, field) ==
    IF field \in DOMAIN error THEN error[field] ELSE Undefined

(* JavaScript values a parameter mapping may hold.  A string is a sequence *)
(* of tokens, as endpoints are.                                           *)
Null == [null |-> TRUE]
Str(tokens) == [str |-> tokens]
Num(n) == [num |-> n]
Bool(b) == [bool |-> b]

(* str.split(sep) *)
RECURSIVE SplitOn(_, _)
SplitOn(str, sep) ==
    IF \A i \in DOMAIN str : str[i] # sep THEN <<str>>
    ELSE LET at == CHOOSE i \in DOMAIN str :
                       str[i] = sep /\ \A j \in 1..(i - 1) : str[j] # sep
         IN  <<SubSeq(str, 1, at - 1)>> \o SplitOn(SubSeq(str, at + 1, Len(str)), sep)

(* str.trim() and str.toLowerCase(), on the tokens the model uses *)
RECURSIVE Trim(_)
Trim(str) ==
    IF str = <<>> THEN str
    ELSE IF str[1] = " " THEN Trim(Tail(str))
    ELSE IF str[Len(str)] = " " THEN Trim(SubSeq(str, 1, Len(str) - 1))
    ELSE str
ToLowerCaseToken(tok) ==
    IF tok = "Spawn" THEN "spawn"
    ELSE IF tok = "CREEP" THEN "creep"
    ELSE tok
ToLowerCase(str) == [i \in 1..Len(str) |-> ToLowerCaseToken(str[i])]

(* a value in a condition: if (value) *)
Truthy(value) ==
    value \notin {Undefined, Null, Bool(FALSE), Num(0), Str(<<>>)}

(* String(value) *)
String(value) ==
    IF "str" \in DOMAIN value THEN value.str
    ELSE IF "num" \in DOMAIN value THEN <<ToString(value.num)>>
    ELSE IF "bool" \in DOMAIN value THEN (IF value.bool THEN <<"true">> ELSE <<"false">>)
    ELSE IF value = Null THEN <<"null">>
    ELSE <<"undefined">>

(* Object.entries(params): the own keys in insertion order (the keys of the *)
(* option types are identifiers, none of them an array index); a mapping is *)
(* held as the sequence of its <<key, value>> pairs                         *)
ObjectEntries(params) == params

buildQueryParams_Truthy(params) ==
    LET kept == SelectSeq(ObjectEntries(params),
                          LAMBDA e : e[2] # Undefined /\ e[2] # Null
                                     /\ e[2] # Num(0) /\ e[2] # Bool(FALSE)
                                     /\ e[2] # Str(<<>>))
    IN  [i \in 1..Len(kept) |-> <<kept[i][1], String(kept[i][2])>>]

(* buildQueryParams: urlParams.append(key, String(value)) for every value   *)
(* that is neither undefined nor null                                       *)
buildQueryParams(params) ==
    LET kept == SelectSeq(ObjectEntries(params),
                          LAMBDA e : e[2] # Undefined /\ e[2] # Null)
    IN  [i \in 1..Len(kept) |-> <<kept[i][1], String(kept[i][2])>>]

(* URLSearchParams.toString(): application/x-www-form-urlencoded *)
FormEncodeToken(tok) ==
    IF tok = " " THEN "+"
    ELSE IF tok = "&" THEN "%26"
    ELSE IF tok = "=" THEN "%3D"
    ELSE IF tok = "?" THEN "%3F"
    ELSE IF tok = "/" THEN "%2F"
    ELSE IF tok = "," THEN "%2C"
    ELSE tok
FormEncode(str) == [i \in 1..Len(str) |-> FormEncodeToken(str[i])]

RECURSIVE URLSearchParamsToString(_)
URLSearchParamsToString(list) ==
    IF list = <<>> THEN <<>>
    ELSE LET pair == FormEncode(list[1][1]) \o <<"=">> \o FormEncode(list[1][2])
         IN  IF Len(list) = 1 THEN pair
             ELSE pair \o <<"&">> \o URLSearchParamsToString(Tail(list))

buildEndpointWithQuery(baseEndpoint, params) ==
    LET queryString == URLSearchParamsToString(buildQueryParams(params))
    IN  IF queryString # <<>> THEN baseEndpoint \o <<"?">> \o queryString
        ELSE baseEndpoint

(* { ...cachedResult, _cacheHit: true, _cachedAt } *)
CacheHitResult(data, t) == [cacheHit |-> TRUE, cachedAt |-> t] @@ data

(* createEnhancedToolResult, with which a tool handler formats the value    *)
(* makeApiCall resolved with.  Of the text of formatResponse the sections   *)
(* that depend on the state of the client are kept: cache status, rate      *)
(* limit status, warnings and the rate-limit line of the suggested actions. *)
IsCacheHit(data) == "cacheHit" \in DOMAIN data /\ data.cacheHit

generateWarnings(data, endpoint, info) ==
    LET rate == IF info = Undefined THEN {}
                ELSE IF info.remaining < 5 THEN {<<"CRITICAL", info.remaining>>}
                ELSE IF info.remaining < 20 THEN {<<"WARNING", info.remaining>>}
                ELSE {}
        large == IF Includes(endpoint, <<"room-objects">>) /\ "objects" \in DOMAIN data
                    /\ Len(data.objects) > 100
                 THEN {<<"Large dataset", Len(data.objects)>>} ELSE {}
    IN  rate \cup large

generateSuggestedActions(info) ==
    IF info # Undefined /\ info.remaining < 10
    THEN {<<"Rate limit warning", info.remaining>>} ELSE {}

formatResponse(data, metadata) ==
    [cacheStatus |-> IF IsCacheHit(data) THEN "Cache HIT" ELSE "Cache MISS",
     rateLimitStatus |->
         IF metadata.rateLimitInfo # Undefined /\ ~IsCacheHit(data)
         THEN [remaining |-> metadata.rateLimitInfo.remaining,
               limit |-> metadata.rateLimitInfo.limit,
               resetsAt |-> metadata.rateLimitInfo.resetTime]
         ELSE Undefined,
     warnings |-> metadata.warnings,
     suggestedNextActions |-> metadata.suggestedNextActions]

createEnhancedToolResult_KeepsIsError(data, endpoint, isError, info, calls, t) ==
    LET loopDetection == detectLoops(calls, t)
        metadata ==
            [endpoint |-> endpoint,
             rateLimitInfo |-> info,
             warnings |-> generateWarnings(data, endpoint, info)
                              \cup loopDetection.warnings,
             suggestedNextActions |->
                 generateSuggestedActions(info)
                     \cup (IF loopDetection.isLoop THEN {<<"Loop detected">>} ELSE {})]
    IN  [metadata |-> metadata,
         text |-> formatResponse(data, metadata),
         isError |-> isError]

createEnhancedToolResult(data, endpoint, isError, info, calls, t) ==
    LET loopDetection == detectLoops(calls, t)
        metadata ==
            [endpoint |-> endpoint,
             rateLimitInfo |-> info,
             warnings |-> generateWarnings(data, endpoint, info)
                              \cup loopDetection.warnings,
             suggestedNextActions |->
                 generateSuggestedActions(info)
                     \cup (IF loopDetection.isLoop THEN {<<"Loop detected">>} ELSE {})]
    IN  [metadata |-> metadata,
         text |-> formatResponse(data, metadata),
         isError |-> isError \/ loopDetection.isLoop]

-----------------------------------------------------------------------------
(* State *)

EmptyCache == [k \in {} |-> Undefined]

NewCall(endpoint, cacheKey, cache, t) ==
    [endpoint |-> endpoint, cacheKey |-> cacheKey, at |-> t,
     outcome |-> "pending",      \* pending, loop, hit, ok, error
     fetches |-> 0,              \* calls of fetch made for this invocation
     fetchAt |-> <<>>,           \* when each fetch was called
     attempts |-> <<>>,          \* what each fetch gave: a status, or 0 for a throw
     thrown |-> Undefined,       \* the last error fetch threw
     delays |-> <<>>,            \* the backoff delays computed
     error |-> Undefined,        \* the error the invocation rejected with
     result |-> Undefined,       \* the value the invocation resolved with
     payload |-> Undefined,      \* what response.json() gave
     response |-> NoResponse,    \* the response fetchWithRetry returned
     formatted |-> Undefined,    \* the tool result made of the resolved value
     xToken |-> Undefined,       \* the X-Token header of the request, if any
     \* the invocations in flight when this one was made
     inFlight |-> {cur[q] : q \in {r \in Procs : pc[r] # "idle"}},
     \* the cache entry of the key as the invocation found it
     hadEntry |-> cacheKey \in DOMAIN cache,
     entryData |-> IF cacheKey \in DOMAIN cache THEN cache[cacheKey].data ELSE Undefined,
     entryAt |-> IF cacheKey \in DOMAIN cache THEN cache[cacheKey].timestamp ELSE 0,
     entryTtl |-> IF cacheKey \in DOMAIN cache THEN cache[cacheKey].ttl ELSE 0]

(* process.env.SCREEPS_TOKEN, the token of DEFAULT_CONFIG *)
EnvToken == Str(<<"env-token">>)

InitWith(cfg) ==
    /\ now = 0
    /\ config = cfg
    /\ responseCache = EmptyCache
    /\ lastRateLimitInfo = Undefined
    /\ recentCalls = <<>>
    /\ pc = [p \in Procs |-> "idle"]
    /\ cur = [p \in Procs |-> 0]
    /\ attempt = [p \in Procs |-> 0]
    /\ wakeAt = [p \in Procs |-> 0]
    /\ resp = [p \in Procs |-> NoResponse]
    /\ log = <<>>
    /\ token = EnvToken
    /\ tools = <<>>

(* ConfigManager constructed with retries switched off *)
NO_RETRY_CONFIG == [DEFAULT_RETRY_CONFIG EXCEPT !.maxRetries = 0]

Init == InitWith(NO_RETRY_CONFIG)

Finish(p, entry) ==
    /\ log' = [log EXCEPT ![cur[p]] = entry]
    /\ pc' = [pc EXCEPT ![p] = "idle"]
    /\ attempt' = [attempt EXCEPT ![p] = 0]
    /\ wakeAt' = [wakeAt EXCEPT ![p] = 0]
    /\ resp' = [resp EXCEPT ![p] = NoResponse]
    /\ UNCHANGED cur

-----------------------------------------------------------------------------
(* makeApiCall, from its invocation to its first await: the cache lookup,   *)
(* trackCall, detectLoops, and then the LoopDetected error, the cache hit   *)
(* or the first fetch of fetchWithRetry.                                    *)

(* What the invocation does after trackCall: the loop check comes first *)
Decide_CacheFirst(isLoop, cachedResult) ==
    IF cachedResult # Undefined THEN "hit"
    ELSE IF isLoop THEN "loop"
    ELSE "fetch"

Decide(isLoop, cachedResult) ==
    IF isLoop THEN "loop"
    ELSE IF cachedResult # Undefined THEN "hit"
    ELSE "fetch"

(* The slots are interchangeable: an invocation takes the lowest idle one *)
MakeApiCall_KeepsSnapshot(p, endpoint, options) ==
    /\ pc[p] = "idle"
    /\ \A q \in Procs : q < p => pc[q] # "idle"
    /\ LET cacheKey == generateCacheKey(endpoint, options)
           cachedResult == getCachedResult(responseCache, cacheKey, now)
           calls == trackCall(recentCalls, endpoint, cacheKey, now)
           loopDetection == detectLoops(calls, now)
           call == NewCall(endpoint, cacheKey, responseCache, now)
           id == Len(log) + 1
           decision == Decide(loopDetection.isLoop, cachedResult)
       IN  /\ responseCache' = CacheAfterLookup(responseCache, cacheKey, now)
           /\ recentCalls' = calls
           /\ IF decision = "loop"
              THEN /\ log' = Append(log, [call EXCEPT !.outcome = "loop",
                                                     !.error = LoopError(endpoint)])
                   /\ UNCHANGED <<lastRateLimitInfo, pc, cur, attempt>>
              ELSE IF decision = "hit"
              THEN /\ lastRateLimitInfo' = lastRateLimitInfo
                   /\ log' = Append(log,
                         [call EXCEPT !.outcome = "hit",
                                      !.result = CacheHitResult(cachedResult, now),
                                      !.formatted = createEnhancedToolResult(
                                          CacheHitResult(cachedResult, now), endpoint,
                                          FALSE, lastRateLimitInfo', calls, now)])
                   /\ UNCHANGED <<pc, cur, attempt>>
              ELSE /\ log' = Append(log, [call EXCEPT !.fetches = 1,
                                                     !.fetchAt = <<now>>,
                                                     !.xToken = token])
                   /\ pc' = [pc EXCEPT ![p] = "fetching"]
                   /\ cur' = [cur EXCEPT ![p] = id]
                   /\ attempt' = [attempt EXCEPT ![p] = 0]
                   /\ UNCHANGED lastRateLimitInfo
    /\ UNCHANGED <<now, config, wakeAt, resp>>

MakeApiCall_DropsRejected(p, endpoint, options) ==
    /\ pc[p] = "idle"
    /\ \A q \in Procs : q < p => pc[q] # "idle"
    /\ LET cacheKey == generateCacheKey(endpoint, options)
           cachedResult == getCachedResult(responseCache, cacheKey, now)
           calls == trackCall(recentCalls, endpoint, cacheKey, now)
           loopDetection == detectLoops(calls, now)
           call == NewCall(endpoint, cacheKey, responseCache, now)
           id == Len(log) + 1
           decision == Decide(loopDetection.isLoop, cachedResult)
       IN  /\ responseCache' = CacheAfterLookup(responseCache, cacheKey, now)
           /\ IF decision = "loop"
              THEN /\ log' = Append(log, [call EXCEPT !.outcome = "loop",
                                                     !.error = LoopError(endpoint)])
                   /\ UNCHANGED <<recentCalls, lastRateLimitInfo, pc, cur, attempt>>
              ELSE IF decision = "hit"
              THEN /\ lastRateLimitInfo' = Undefined
                   /\ recentCalls' = calls
                   /\ log' = Append(log,
                         [call EXCEPT !.outcome = "hit",
                                      !.result = CacheHitResult(cachedResult, now),
                                      !.formatted = createEnhancedToolResult(
                                          CacheHitResult(cachedResult, now), endpoint,
                                          FALSE, lastRateLimitInfo', calls, now)])
                   /\ UNCHANGED <<pc, cur, attempt>>
              ELSE /\ log' = Append(log, [call EXCEPT !.fetches = 1,
                                                     !.fetchAt = <<now>>,
                                                     !.xToken = token])
                   /\ recentCalls' = calls
                   /\ pc' = [pc EXCEPT ![p] = "fetching"]
                   /\ cur' = [cur EXCEPT ![p] = id]
                   /\ attempt' = [attempt EXCEPT ![p] = 0]
                   /\ UNCHANGED lastRateLimitInfo
    /\ UNCHANGED <<now, config, wakeAt, resp>>

MakeApiCall(p, endpoint, options) ==
    /\ pc[p] = "idle"
    /\ \A q \in Procs : q < p => pc[q] # "idle"
    /\ LET cacheKey == generateCacheKey(endpoint, options)
           cachedResult == getCachedResult(responseCache, cacheKey, now)
           calls == trackCall(recentCalls, endpoint, cacheKey, now)
           loopDetection == detectLoops(calls, now)
           call == NewCall(endpoint, cacheKey, responseCache, now)
           id == Len(log) + 1
           decision == Decide(loopDetection.isLoop, cachedResult)
       IN  /\ responseCache' = CacheAfterLookup(responseCache, cacheKey, now)
           /\ recentCalls' = calls
           /\ IF decision = "loop"
              THEN /\ log' = Append(log, [call EXCEPT !.outcome = "loop",
                                                     !.error = LoopError(endpoint)])
                   /\ UNCHANGED <<lastRateLimitInfo, pc, cur, attempt>>
              ELSE IF decision = "hit"
              THEN /\ lastRateLimitInfo' = Undefined
                   /\ log' = Append(log,
                         [call EXCEPT !.outcome = "hit",
                                      !.result = CacheHitResult(cachedResult, now),
                                      !.formatted = createEnhancedToolResult(
                                          CacheHitResult(cachedResult, now), endpoint,
                                          FALSE, lastRateLimitInfo', calls, now)])
                   /\ UNCHANGED <<pc, cur, attempt>>
              ELSE /\ log' = Append(log, [call EXCEPT !.fetches = 1,
                                                     !.fetchAt = <<now>>,
                                                     !.xToken = token])
                   /\ pc' = [pc EXCEPT ![p] = "fetching"]
                   /\ cur' = [cur EXCEPT ![p] = id]
                   /\ attempt' = [attempt EXCEPT ![p] = 0]
                   /\ UNCHANGED lastRateLimitInfo
    /\ UNCHANGED <<now, config, wakeAt, resp>>

(* The backoff of fetchWithRetry: the delay is computed and the timer set *)
StartBackoff(p, entry) ==
    LET delay == BackoffDelay(config, attempt[p])
    IN  /\ log' = [log EXCEPT ![cur[p]] = [entry EXCEPT !.delays = Append(@, delay)]]
        /\ wakeAt' = [wakeAt EXCEPT ![p] = now + delay]
        /\ pc' = [pc EXCEPT ![p] = "backoff"]
        /\ UNCHANGED <<cur, attempt, resp, lastRateLimitInfo, responseCache>>

ReceiveResponse_KeepsSnapshot(p, entry, response) ==
    /\ lastRateLimitInfo' = IF extractRateLimitInfo(response) # Undefined
                            THEN extractRateLimitInfo(response)
                            ELSE lastRateLimitInfo
    /\ IF ~Ok(response.status)
       THEN /\ Finish(p, [entry EXCEPT !.outcome = "error",
                                       !.response = response,
                                       !.error = ErrorOfResponse(response)])
       ELSE /\ log' = [log EXCEPT ![cur[p]] = [entry EXCEPT !.response = response]]
            /\ pc' = [pc EXCEPT ![p] = "json"]
            /\ resp' = [resp EXCEPT ![p] = response]
            /\ UNCHANGED <<cur, attempt, wakeAt>>
    /\ UNCHANGED responseCache

(* makeApiCall once fetchWithRetry has returned a response: the rate-limit  *)
(* snapshot is taken, then a non-2xx response is thrown as an error and a   *)
(* 2xx response is read with response.json()                                *)
ReceiveResponse_ClassifiesFirst(p, entry, response) ==
    /\ IF ~Ok(response.status)
       THEN /\ Finish(p, [entry EXCEPT !.outcome = "error",
                                       !.response = response,
                                       !.error = ErrorOfResponse(response)])
            /\ UNCHANGED lastRateLimitInfo
       ELSE /\ lastRateLimitInfo' = extractRateLimitInfo(response)
            /\ log' = [log EXCEPT ![cur[p]] = [entry EXCEPT !.response = response]]
            /\ pc' = [pc EXCEPT ![p] = "json"]
            /\ resp' = [resp EXCEPT ![p] = response]
            /\ UNCHANGED <<cur, attempt, wakeAt>>
    /\ UNCHANGED responseCache

ReceiveResponse(p, entry, response) ==
    /\ lastRateLimitInfo' = extractRateLimitInfo(response)
    /\ IF ~Ok(response.status)
       THEN /\ Finish(p, [entry EXCEPT !.outcome = "error",
                                       !.response = response,
                                       !.error = ErrorOfResponse(response)])
       ELSE /\ log' = [log EXCEPT ![cur[p]] = [entry EXCEPT !.response = response]]
            /\ pc' = [pc EXCEPT ![p] = "json"]
            /\ resp' = [resp EXCEPT ![p] = response]
            /\ UNCHANGED <<cur, attempt, wakeAt>>
    /\ UNCHANGED responseCache

(* fetch resolves with a response *)
FetchResolves(p, status, headers) ==
    /\ pc[p] = "fetching"
    /\ LET response == [status |-> status, headers |-> headers]
           entry == [log[cur[p]] EXCEPT !.attempts = Append(@, status)]
       IN  IF ReturnsImmediately(config, status) \/ IsLastAttempt(config, attempt[p])
           THEN ReceiveResponse(p, entry, response)
           ELSE StartBackoff(p, entry)
    /\ UNCHANGED <<now, config, recentCalls>>

(* fetch throws: a network-level error *)
FetchThrows_NoRetry(p, err) ==
    /\ pc[p] = "fetching"
    /\ Finish(p, [log[cur[p]] EXCEPT !.attempts = Append(@, 0), !.thrown = err,
                                     !.outcome = "error", !.error = err])
    /\ UNCHANGED <<now, config, recentCalls, lastRateLimitInfo, responseCache>>

FetchThrows(p, err) ==
    /\ pc[p] = "fetching"
    /\ LET entry == [log[cur[p]] EXCEPT !.attempts = Append(@, 0), !.thrown = err]
       IN  IF IsLastAttempt(config, attempt[p])
           THEN /\ Finish(p, [entry EXCEPT !.outcome = "error", !.error = err])
                /\ UNCHANGED <<lastRateLimitInfo, responseCache>>
           ELSE StartBackoff(p, entry)
    /\ UNCHANGED <<now, config, recentCalls>>

(* The backoff timer fires, not before it is due, and the next fetch starts *)
BackoffElapses(p) ==
    /\ pc[p] = "backoff"
    /\ now' = Max(now, wakeAt[p])
    /\ attempt' = [attempt EXCEPT ![p] = @ + 1]
    /\ pc' = [pc EXCEPT ![p] = "fetching"]
    /\ log' = [log EXCEPT ![cur[p]].fetches = @ + 1,
                           ![cur[p]].fetchAt = Append(@, now')]
    /\ UNCHANGED <<config, responseCache, lastRateLimitInfo, recentCalls, cur,
                   wakeAt, resp>>

(* response.json() resolves: the payload is cached and returned, and the    *)
(* tool handler awaiting makeApiCall formats it in the same turn            *)
JsonResolvesWith_OwnData(p, data) ==
    /\ pc[p] = "json"
    /\ responseCache' = setCachedResult(responseCache, log[cur[p]].cacheKey, data,
                                        getCacheTTL(log[cur[p]].endpoint), now)
    /\ Finish(p, [log[cur[p]] EXCEPT
                      !.outcome = "ok", !.result = data, !.payload = data,
                      !.formatted = createEnhancedToolResult(
                          data, log[cur[p]].endpoint, FALSE,
                          extractRateLimitInfo(resp[p]), recentCalls, now)])
    /\ UNCHANGED <<now, config, lastRateLimitInfo, recentCalls>>

JsonResolvesWith(p, data) ==
    /\ pc[p] = "json"
    /\ responseCache' = setCachedResult(responseCache, log[cur[p]].cacheKey, data,
                                        getCacheTTL(log[cur[p]].endpoint), now)
    /\ Finish(p, [log[cur[p]] EXCEPT
                      !.outcome = "ok", !.result = data, !.payload = data,
                      !.formatted = createEnhancedToolResult(
                          data, log[cur[p]].endpoint, FALSE, lastRateLimitInfo,
                          recentCalls, now)])
    /\ UNCHANGED <<now, config, lastRateLimitInfo, recentCalls>>

(* the body the upstream server sends by default *)
JsonResolves(p) == JsonResolvesWith(p, Payload(cur[p]))

(* response.json() rejects: the body is no JSON *)
JsonRejects_StoresNull(p) ==
    /\ pc[p] = "json"
    /\ responseCache' = setCachedResult(responseCache, log[cur[p]].cacheKey, Null,
                                        getCacheTTL(log[cur[p]].endpoint), now)
    /\ Finish(p, [log[cur[p]] EXCEPT !.outcome = "error",
                     !.error = [name |-> "SyntaxError", message |-> <<"Unexpected token">>]])
    /\ UNCHANGED <<now, config, lastRateLimitInfo, recentCalls>>

JsonRejects(p) ==
    /\ pc[p] = "json"
    /\ Finish(p, [log[cur[p]] EXCEPT !.outcome = "error",
                     !.error = [name |-> "SyntaxError", message |-> <<"Unexpected token">>]])
    /\ UNCHANGED <<now, config, responseCache, lastRateLimitInfo, recentCalls>>

(* Time passes *)
Tick(t) ==
    /\ t > now
    /\ now' = t
    /\ UNCHANGED <<config, responseCache, lastRateLimitInfo, recentCalls,
                   pc, cur, attempt, wakeAt, resp, log>>

-----------------------------------------------------------------------------
(* Spec: the access layer under concurrent callers, retries switched off *)

Endpoints == {AuthMe, GameTime}
Responses == {<<200, NoHeaders>>, <<500, NoHeaders>>}

Invoke ==
    \E p \in Procs, e \in Endpoints :
        /\ Len(log) < MaxInvocations
        /\ MakeApiCall(p, e, NoOptions)
        /\ UNCHANGED toolVars

Respond ==
    /\ \E p \in Procs, r \in Responses : FetchResolves(p, r[1], r[2])
    /\ UNCHANGED toolVars

NetworkError ==
    /\ \E p \in Procs : FetchThrows(p, FetchFailed)
    /\ UNCHANGED toolVars

Body ==
    /\ \E p \in Procs : JsonResolves(p)
    /\ UNCHANGED toolVars

BadBody ==
    /\ \E p \in Procs : JsonRejects(p)
    /\ UNCHANGED toolVars

Clock ==
    /\ \E t \in Instants : Tick(t)
    /\ UNCHANGED toolVars

Next == Invoke \/ Respond \/ NetworkError \/ Body \/ BadBody \/ Clock

Spec == Init /\ [][Next]_vars

-----------------------------------------------------------------------------
(* SpecRetry: one invocation at a time under every retry configuration;     *)
(* time passes in the backoff timers only                                   *)

RetryDelays == {<<1000, 10000>>, <<100, 1000>>, <<1000, 2000>>}
RetryCodes == {DEFAULT_RETRY_CONFIG.retryableStatusCodes, {500}}

RetryConfigs ==
    {[maxRetries |-> m, initialDelayMs |-> d[1], maxDelayMs |-> d[2],
      retryableStatusCodes |-> c] :
        m \in 0..MaxRetriesTried, d \in RetryDelays, c \in RetryCodes}

RetryStatuses == {200, 404, 429, 500, 502}

InitRetry == \E cfg \in RetryConfigs : InitWith(cfg)

RetryInvoke ==
    /\ Len(log) < MaxRetryInvocations
    /\ MakeApiCall(1, UserRooms, NoOptions)
    /\ UNCHANGED toolVars

RetryRespond ==
    /\ \E s \in RetryStatuses : FetchResolves(1, s, NoHeaders)
    /\ UNCHANGED toolVars

RetryNetworkError ==
    /\ \E e \in NetErrors : FetchThrows(1, e)
    /\ UNCHANGED toolVars

RetryTimer ==
    /\ BackoffElapses(1)
    /\ UNCHANGED toolVars

RetryBody ==
    /\ JsonResolves(1)
    /\ UNCHANGED toolVars

RetryBadBody ==
    /\ JsonRejects(1)
    /\ UNCHANGED toolVars

NextRetry ==
    RetryInvoke \/ RetryRespond \/ RetryNetworkError \/ RetryTimer \/ RetryBody
    \/ RetryBadBody

SpecRetry == InitRetry /\ [][NextRetry]_vars

(* SpecRetryLive: SpecRetry where every call of fetch is answered or fails   *)
(* in the end, and every timer of a backoff fires                            *)
FetchSettles == RetryRespond \/ RetryNetworkError
BodySettles == RetryBody \/ RetryBadBody

SpecRetryLive ==
    SpecRetry /\ WF_vars(FetchSettles) /\ WF_vars(RetryTimer)

-----------------------------------------------------------------------------
(* SpecBackoff: concurrent callers, each call retried once after the       *)
(* default delay; time passes in the backoff timers only                    *)

ONE_RETRY_CONFIG == [DEFAULT_RETRY_CONFIG EXCEPT !.maxRetries = 1]

InitBackoff == InitWith(ONE_RETRY_CONFIG)

BackoffEndpoints == {UserRooms, GameTime}

BackoffInvoke_Blocked ==
    /\ \A q \in Procs : pc[q] # "backoff"
    /\ \E p \in Procs, e \in BackoffEndpoints :
        /\ Len(log) < MaxBackoffInvocations
        /\ MakeApiCall(p, e, NoOptions)
        /\ UNCHANGED toolVars

BackoffInvoke ==
    \E p \in Procs, e \in BackoffEndpoints :
        /\ Len(log) < MaxBackoffInvocations
        /\ MakeApiCall(p, e, NoOptions)
        /\ UNCHANGED toolVars

BackoffRespondTo(p) ==
    /\ \E status \in {200, 500} : FetchResolves(p, status, NoHeaders)
    /\ UNCHANGED toolVars

BackoffRespond == \E p \in Procs : BackoffRespondTo(p)

BackoffNetworkError ==
    /\ \E p \in Procs : FetchThrows(p, FetchFailed)
    /\ UNCHANGED toolVars

BackoffTimer ==
    /\ \E p \in Procs : BackoffElapses(p)
    /\ UNCHANGED toolVars

BackoffBodyOf(p) ==
    /\ JsonResolves(p)
    /\ UNCHANGED toolVars

BackoffBody == \E p \in Procs : BackoffBodyOf(p)

NextBackoff ==
    BackoffInvoke \/ BackoffRespond \/ BackoffNetworkError \/ BackoffTimer
    \/ BackoffBody

SpecBackoff == InitBackoff /\ [][NextBackoff]_vars

-----------------------------------------------------------------------------
(* SpecSweep: one caller going through the rooms one after the other, each  *)
(* call answered before the next, who now and then asks for the first room  *)
(* again                                                                    *)

RoomNames ==
    <<"W1N1", "W2N1", "W3N1", "W4N1", "W5N1", "W6N1", "W7N1", "W8N1", "W9N1",
      "W10N1", "W11N1", "W12N1", "W13N1", "W14N1", "W15N1", "W16N1", "W17N1",
      "W18N1", "W19N1", "W20N1", "W21N1", "W22N1", "W23N1", "W24N1">>

(* buildEndpointWithQuery('/game/room-objects', {room}) *)
RoomObjects(i) == <<"/", "game", "/", "room-objects", "?", "room", "=", RoomNames[i]>>

RoomsSeen == Cardinality({log[j].endpoint : j \in DOMAIN log})
Repeats == Len(log) - RoomsSeen

SweepInvoke ==
    /\ Len(log) < MaxSweepInvocations
    /\ \/ /\ RoomsSeen < Len(RoomNames)
          /\ MakeApiCall(1, RoomObjects(RoomsSeen + 1), NoOptions)
       \/ /\ RoomsSeen > 0
          /\ Repeats < MaxRepeats
          /\ MakeApiCall(1, RoomObjects(1), NoOptions)
    /\ UNCHANGED toolVars

SweepRespond ==
    /\ FetchResolves(1, 200, NoHeaders)
    /\ UNCHANGED toolVars

SweepBody ==
    /\ JsonResolves(1)
    /\ UNCHANGED toolVars

SweepClock ==
    /\ Tick(FiveMinutes)
    /\ UNCHANGED toolVars

NextSweep == SweepInvoke \/ SweepRespond \/ SweepBody \/ SweepClock

SpecSweep == Init /\ [][NextSweep]_vars

-----------------------------------------------------------------------------
(* SpecTTL: calls to endpoints that contain one or two of the substrings     *)
(* getCacheTTL looks for, in either order, each answered and cached.         *)

TTLPatterns ==
    {<<"/", "auth", "/", "me">>, <<"/", "version">>,
     <<"/", "game", "/", "world-size">>, <<"/", "game", "/", "shards", "/", "info">>,
     <<"/", "user", "/", "world-status">>, <<"/", "game", "/", "time">>,
     <<"/", "game", "/", "market", "/", "stats">>, <<"room-terrain">>,
     <<"room-status">>, <<"room-objects">>, <<"user", "/", "stats">>,
     <<"user", "/", "overview">>, <<"market">>}

TTLEndpoints ==
    {<<"/", "game", "/", "map-stats">>}
        \cup TTLPatterns
        \cup {p \o <<"?", "x", "=">> \o q : p \in TTLPatterns, q \in TTLPatterns}

TTLInvoke ==
    /\ Len(log) < MaxTTLInvocations
    /\ \E e \in TTLEndpoints : MakeApiCall(1, e, NoOptions)
    /\ UNCHANGED toolVars

TTLRespond ==
    /\ FetchResolves(1, 200, NoHeaders)
    /\ UNCHANGED toolVars

TTLBody ==
    /\ JsonResolves(1)
    /\ UNCHANGED toolVars

NextTTL == TTLInvoke \/ TTLRespond \/ TTLBody

SpecTTL == Init /\ [][NextTTL]_vars

-----------------------------------------------------------------------------
(* SpecRate: two interleaved invocations whose responses carry all, some or *)
(* none of the rate-limit headers, with the statuses makeApiCall tells      *)
(* apart; retries are off.                                                  *)

RateEndpoints == {AuthMe, UserRooms}

RateResponses ==
    {<<200, RateHeaders>>, <<200, PartialHeaders>>, <<200, NoHeaders>>,
     <<429, RateHeaders>>, <<429, NoHeaders>>, <<401, NoHeaders>>, <<404, NoHeaders>>}

RateInvoke ==
    /\ Len(log) < MaxRateInvocations
    /\ \E p \in Procs, e \in RateEndpoints : MakeApiCall(p, e, NoOptions)
    /\ UNCHANGED toolVars

RateRespond ==
    /\ \E p \in Procs, r \in RateResponses : FetchResolves(p, r[1], r[2])
    /\ UNCHANGED toolVars

RateBody ==
    /\ \E p \in Procs : JsonResolves(p)
    /\ UNCHANGED toolVars

RateClock ==
    /\ Tick(FiveMinutes)
    /\ UNCHANGED toolVars

NextRate == RateInvoke \/ RateRespond \/ RateBody \/ RateClock

SpecRate == Init /\ [][NextRate]_vars

-----------------------------------------------------------------------------
(* RoomToolHandlers.processRoomObjectsData: the type filter, then grouping   *)
(* or pagination.  A room object is [id, type], type "" when it has none;    *)
(* the parameters are [room, shard, objectType, groupByType, page, pageSize] *)
(* with Undefined for a parameter that is not given.                         *)

CeilDiv(n, d) == (n + d - 1) \div d

DefaultPageSize == 50
MaxPageSize == 200

FilterByType(objects, objectType) ==
    LET pieces == SplitOn(objectType.str, ",")
        types == {ToLowerCase(Trim(pieces[i])) : i \in DOMAIN pieces}
    IN  SelectSeq(objects,
                  LAMBDA obj : obj.type # "" /\ <<ToLowerCaseToken(obj.type)>> \in types)

GroupKey(obj) == IF obj.type # "" THEN obj.type ELSE "unknown"

(* grouped[type]: the objects of the type, in their order *)
GroupByType(objects) ==
    [t \in {GroupKey(objects[i]) : i \in DOMAIN objects} |->
        SelectSeq(objects, LAMBDA obj : GroupKey(obj) = t)]

(* Object.entries(grouped): the types in the order of their first object *)
GroupSummary(objects) ==
    LET firsts == SelectSeq([i \in DOMAIN objects |-> i],
                            LAMBDA i : \A j \in 1..(i - 1) :
                                           GroupKey(objects[j]) # GroupKey(objects[i]))
    IN  [k \in DOMAIN firsts |->
            [type |-> GroupKey(objects[firsts[k]]),
             count |-> Len(GroupByType(objects)[GroupKey(objects[firsts[k]])])]]

(* objects.slice(startIndex, endIndex), indices from 0 *)
Slice(objects, startIndex, endIndex) ==
    SubSeq(objects, Min(startIndex, Len(objects)) + 1, Min(endIndex, Len(objects)))

WithObjects(data, objects, metadata) ==
    [f \in DOMAIN data \cup {"objects", "metadata"} |->
        IF f = "objects" THEN objects
        ELSE IF f = "metadata" THEN metadata
        ELSE data[f]]

Paginate_SizeFirst(data, objects, totalObjects, params) ==
    LET page == Max(1, params.page.num)
        pageSize == Min(MaxPageSize,
                        Max(1, IF Truthy(params.pageSize) THEN params.pageSize.num
                               ELSE DefaultPageSize))
        startIndex == page * pageSize
        endIndex == startIndex + pageSize
        paginatedObjects == Slice(objects, startIndex, endIndex)
        totalPages == Max(1, CeilDiv(Len(objects), pageSize))
    IN  WithObjects(data, paginatedObjects,
            [totalObjects |-> totalObjects,
             filteredObjects |-> Len(objects),
             pagination |->
                 [page |-> page, pageSize |-> pageSize, totalPages |-> totalPages,
                  hasNextPage |-> page < totalPages,
                  hasPreviousPage |-> page > 1,
                  objectsOnPage |-> Len(paginatedObjects),
                  startIndex |-> startIndex + 1,
                  endIndex |-> Min(endIndex, Len(objects))]])

Paginate(data, objects, totalObjects, params) ==
    LET page == Max(1, params.page.num)
        pageSize == Min(MaxPageSize,
                        Max(1, IF Truthy(params.pageSize) THEN params.pageSize.num
                               ELSE DefaultPageSize))
        startIndex == (page - 1) * pageSize
        endIndex == startIndex + pageSize
        paginatedObjects == Slice(objects, startIndex, endIndex)
        totalPages == Max(1, CeilDiv(Len(objects), pageSize))
    IN  WithObjects(data, paginatedObjects,
            [totalObjects |-> totalObjects,
             filteredObjects |-> Len(objects),
             pagination |->
                 [page |-> page, pageSize |-> pageSize, totalPages |-> totalPages,
                  hasNextPage |-> page < totalPages,
                  hasPreviousPage |-> page > 1,
                  objectsOnPage |-> Len(paginatedObjects),
                  startIndex |-> startIndex + 1,
                  endIndex |-> Min(endIndex, Len(objects))]])

processRoomObjectsData_PageFirst(data, params) ==
    IF "objects" \notin DOMAIN data THEN data
    ELSE LET totalObjects == Len(data.objects)
             objects == IF Truthy(params.objectType)
                        THEN FilterByType(data.objects, params.objectType)
                        ELSE data.objects
         IN  IF params.page # Undefined
             THEN Paginate(data, objects, totalObjects, params)
             ELSE IF Truthy(params.groupByType)
             THEN WithObjects(data, GroupByType(objects),
                      [totalObjects |-> totalObjects,
                       filteredObjects |-> Len(objects),
                       groupedByType |-> TRUE,
                       groupSummary |-> GroupSummary(objects)])
             ELSE IF Truthy(params.objectType) \/ Len(objects) # totalObjects
             THEN WithObjects(data, objects,
                      [totalObjects |-> totalObjects, filteredObjects |-> Len(objects)])
             ELSE data

processRoomObjectsData(data, params) ==
    IF "objects" \notin DOMAIN data THEN data
    ELSE LET totalObjects == Len(data.objects)
             objects == IF Truthy(params.objectType)
                        THEN FilterByType(data.objects, params.objectType)
                        ELSE data.objects
         IN  IF Truthy(params.groupByType)
             THEN WithObjects(data, GroupByType(objects),
                      [totalObjects |-> totalObjects,
                       filteredObjects |-> Len(objects),
                       groupedByType |-> TRUE,
                       groupSummary |-> GroupSummary(objects)])
             ELSE IF params.page # Undefined
             THEN Paginate(data, objects, totalObjects, params)
             ELSE IF Truthy(params.objectType) \/ Len(objects) # totalObjects
             THEN WithObjects(data, objects,
                      [totalObjects |-> totalObjects, filteredObjects |-> Len(objects)])
             ELSE data

-----------------------------------------------------------------------------
(* The tool handlers.  A handler builds its endpoint and awaits makeApiCall: *)
(* the invocation of a tool is the invocation of makeApiCall it makes.       *)

RoomTerrain == <<"/", "game", "/", "room-terrain">>
ExperimentalPvp == <<"/", "experimental", "/", "pvp">>

(* const endpoint = this.apiClient.buildEndpointWithQuery(base, params) *)
RoomObjectsBase == <<"/", "game", "/", "room-objects">>

MarketOrdersIndex == <<"/", "game", "/", "market", "/", "orders-index">>
ExperimentalNukes == <<"/", "experimental", "/", "nukes">>
AuthSignin == <<"/", "auth", "/", "signin">>

ToolBase(name) ==
    IF name = "get_room_terrain" THEN RoomTerrain
    ELSE IF name = "get_pvp_info" THEN ExperimentalPvp
    ELSE IF name = "get_room_objects" THEN RoomObjectsBase
    ELSE IF name = "get_market_orders_index" THEN MarketOrdersIndex
    ELSE IF name = "get_nukes_info" THEN ExperimentalNukes
    ELSE IF name = "auth_signin" THEN AuthSignin
    ELSE <<>>

(* handleGetRoomObjects sends the room and, when given, the shard only *)
RoomObjectsApiParams(params) ==
    <<<<(<<"room">>), params.room>>>>
        \o (IF Truthy(params.shard) THEN <<<<(<<"shard">>), params.shard>>>> ELSE <<>>)

ToolEndpoint(name, params) ==
    IF name = "get_room_objects"
    THEN buildEndpointWithQuery(ToolBase(name), RoomObjectsApiParams(params))
    ELSE IF name \in {"get_room_terrain", "get_pvp_info"}
    THEN buildEndpointWithQuery(ToolBase(name), params)
    ELSE ToolBase(name)

(* createToolResult(`Error getting room objects: ${error.message}`, true) *)
RoomObjectsError(error) ==
    [isError |-> TRUE, text |-> <<"Error getting room objects: ">> \o error.message]

(* What handleGetRoomObjects returns once its makeApiCall, recorded as call, *)
(* has settled: the processed data formatted, or the error result of its     *)
(* catch block.  Undefined while the call is pending.                        *)
handleGetRoomObjects(call, params) ==
    IF call.outcome \in {"ok", "hit"}
    THEN [isError |-> call.formatted.isError,
          data |-> processRoomObjectsData(call.result, params)]
    ELSE IF call.outcome \in {"loop", "error"}
    THEN RoomObjectsError(call.error)
    ELSE Undefined

(* auth_signin posts the credentials; every other tool sends no options *)
ToolOptions(name) == IF name = "auth_signin" THEN PostOptions ELSE NoOptions

(* obj[field] of a JavaScript object: undefined when it has no such field *)
Get(obj, field) == IF field \in DOMAIN obj THEN obj[field] ELSE Undefined

(* How a handler's promise settles *)
Returns(value) == [threw |-> FALSE, value |-> value]
Throws(error) == [threw |-> TRUE, error |-> error]

(* The market and misc handlers have no catch block: a rejection of          *)
(* makeApiCall is a rejection of the handler                                 *)
handleGetMarketOrdersIndex(call) ==
    IF call.outcome \in {"ok", "hit"}
    THEN Returns([isError |-> call.formatted.isError, data |-> call.result])
    ELSE Throws(call.error)

handleGetNukesInfo(call) ==
    IF call.outcome \in {"ok", "hit"}
    THEN Returns([isError |-> FALSE, data |-> call.result])
    ELSE Throws(call.error)

(* handleAuthSignin returns a tool result, of success or of failure *)
handleAuthSignin(call) ==
    IF call.outcome \in {"ok", "hit"}
    THEN [isError |-> FALSE,
          text |-> <<"Sign in successful!",
                     IF Truthy(Get(call.result, "token"))
                     THEN "[REDACTED]" ELSE "Not provided">>]
    ELSE [isError |-> TRUE, text |-> <<"Sign in failed: ">> \o call.error.message]

(* The function the registry wraps for a tool: the handler, and for          *)
(* auth_signin  const { result, token } = await handleAuthSignin(params);    *)
(* ...; return result                                                        *)
ToolHandler(name, call, params) ==
    IF name = "get_market_orders_index" THEN handleGetMarketOrdersIndex(call)
    ELSE IF name = "get_nukes_info" THEN handleGetNukesInfo(call)
    ELSE IF name = "auth_signin" THEN Returns(Get(handleAuthSignin(call), "result"))
    ELSE Returns(handleGetRoomObjects(call, params))

(* handleToolError: the result of the handler, or the error result made of   *)
(* what it threw; every error of ApiClient is an Error                       *)
handleToolError(completion) ==
    IF completion.threw
    THEN Returns([isError |-> TRUE,
                  text |-> <<"Error: ">> \o completion.error.message,
                  details |-> <<"Type: ", completion.error.name>>])
    ELSE completion

(* What the callback registered for the tool settles with, once the          *)
(* makeApiCall of its handler, recorded as call, has settled                  *)
RegisteredTool(name, call, params) == handleToolError(ToolHandler(name, call, params))

(* if (token) this.configManager.setToken(token): the token of the           *)
(* configuration after the callback of the tool has run to its end            *)
TokenAfter(name, call) ==
    IF name = "auth_signin" /\ call.outcome # "pending"
       /\ Truthy(Get(handleAuthSignin(call), "token"))
    THEN Get(handleAuthSignin(call), "token")
    ELSE token

InvokeTool(p, name, params) ==
    /\ tools' = Append(tools, [name |-> name, params |-> params,
                               call |-> Len(log) + 1])
    /\ MakeApiCall(p, ToolEndpoint(name, params), ToolOptions(name))
    /\ token' = TokenAfter(name, log'[Len(log')])

(* The step of ApiClient that settles the call in slot p lets the callback   *)
(* of the tool that made the call run to its end                             *)
ToolOf(id) == CHOOSE i \in DOMAIN tools : tools[i].call = id
SettleTool(p) ==
    /\ token' = TokenAfter(tools[ToolOf(cur[p])].name, log'[cur[p]])
    /\ UNCHANGED tools

-----------------------------------------------------------------------------
(* SpecQuery: a handler called, on a client just constructed, with any      *)
(* parameter mapping of up to MaxParams keys                                *)

QueryValues ==
    {Undefined, Null, Str(<<"W7N3">>), Str(<<>>), Str(<<"a", "&", "b">>),
     Num(0), Bool(FALSE)}

ToolKeys(name) ==
    IF name = "get_room_terrain" THEN {"room", "shard", "encoded"}
    ELSE {"interval", "start"}

(* the mappings of up to MaxParams distinct keys, in every insertion order *)
ParamMappings(keys) ==
    UNION {{m \in [1..n -> {<<<<k>>, v>> : k \in keys, v \in QueryValues}] :
                \A a, b \in 1..n : a # b => m[a][1] # m[b][1]} :
           n \in 0..MaxParams}

QueryInvoke ==
    /\ tools = <<>>
    /\ \E name \in {"get_room_terrain", "get_pvp_info"} :
           \E params \in ParamMappings(ToolKeys(name)) : InvokeTool(1, name, params)

QueryRespond ==
    /\ FetchResolves(1, 200, NoHeaders)
    /\ UNCHANGED toolVars

QueryBody ==
    /\ JsonResolves(1)
    /\ UNCHANGED toolVars

NextQuery == QueryInvoke \/ QueryRespond \/ QueryBody

SpecQuery == Init /\ [][NextQuery]_vars

-----------------------------------------------------------------------------
(* SpecPages: get_room_objects called once, on a client just constructed,   *)
(* with any of the parameters below; the server answers with any list of up *)
(* to MaxObjects objects, or with a body that has no objects                *)

ObjectTypes == {"spawn", "creep", ""}

ObjectLists ==
    UNION {{[i \in 1..n |-> [id |-> i, type |-> t[i]]] : t \in [1..n -> ObjectTypes]} :
           n \in 0..MaxObjects}

RoomBody(objects) == [ok |-> 1, objects |-> objects]

TheRoom == Str(<<"E1N8">>)

RoomObjectsParams ==
    [room : {TheRoom},
     shard : {Undefined},
     objectType : {Undefined, Str(<<"spawn">>), Str(<<"Spawn", ",", " ", "CREEP", " ">>)},
     groupByType : {Undefined, Bool(TRUE)},
     page : {Undefined, Num(1), Num(2), Num(3)},
     pageSize : {Undefined, Num(1), Num(2), Num(200)}]

PagesInvoke ==
    /\ tools = <<>>
    /\ \E params \in RoomObjectsParams : InvokeTool(1, "get_room_objects", params)

PagesRespond ==
    /\ FetchResolves(1, 200, NoHeaders)
    /\ UNCHANGED toolVars

PagesBody ==
    /\ \E objects \in ObjectLists : JsonResolvesWith(1, RoomBody(objects))
    /\ UNCHANGED toolVars

PagesBodyWithoutObjects ==
    /\ JsonResolves(1)
    /\ UNCHANGED toolVars

NextPages == PagesInvoke \/ PagesRespond \/ PagesBody \/ PagesBodyWithoutObjects

SpecPages == Init /\ [][NextPages]_vars

-----------------------------------------------------------------------------
(* SpecPaging: one caller paging through the three objects of a room, two   *)
(* to a page: each get_room_objects call returns before the next is made,   *)
(* seconds or minutes later                                                  *)

PagingObjects ==
    <<[id |-> 1, type |-> "spawn"], [id |-> 2, type |-> "creep"],
      [id |-> 3, type |-> "spawn"]>>

PagingParams(page) ==
    [room |-> TheRoom, shard |-> Undefined, objectType |-> Undefined,
     groupByType |-> Undefined, page |-> Num(page), pageSize |-> Num(2)]

PagingInvoke ==
    /\ Len(tools) < MaxPagingInvocations
    /\ \E page \in {1, 2} : InvokeTool(1, "get_room_objects", PagingParams(page))

PagingRespond ==
    /\ FetchResolves(1, 200, NoHeaders)
    /\ UNCHANGED toolVars

PagingBody ==
    /\ JsonResolvesWith(1, RoomBody(PagingObjects))
    /\ UNCHANGED toolVars

(* the moments the caller is observed at: seconds or minutes after a call *)
PagingTimes ==
    {a * FiveMinutes + b * 5000 : a \in 0..(MaxPagingInvocations - 1), b \in 0..1}

PagingClock ==
    /\ \E t \in PagingTimes : Tick(t)
    /\ UNCHANGED toolVars

NextPaging == PagingInvoke \/ PagingRespond \/ PagingBody \/ PagingClock

SpecPaging == Init /\ [][NextPaging]_vars

-----------------------------------------------------------------------------
(* SpecTools: the registered tools called through the registry, one call in *)
(* flight at a time: a market tool, a misc tool, a room tool and the        *)
(* sign-in; the server answers 200 or 401, or the network fails             *)

RegisteredTools ==
    {"get_market_orders_index", "get_nukes_info", "get_room_objects", "auth_signin"}

ToolParams(name) ==
    IF name = "get_room_objects" THEN PagingParams(1) ELSE <<>>

NewToken == Str(<<"new-token">>)

(* the bodies a 200 carries: of the sign-in, with a token or without *)
ToolBodies(name) ==
    IF name = "auth_signin" THEN {[ok |-> 1, token |-> NewToken], [ok |-> 1]}
    ELSE IF name = "get_room_objects" THEN {RoomBody(PagingObjects)}
    ELSE {Payload(1)}

ToolsInvoke ==
    /\ Len(tools) < MaxToolInvocations
    /\ \E name \in RegisteredTools : InvokeTool(1, name, ToolParams(name))

ToolsRespond ==
    /\ \E status \in {200, 401} : FetchResolves(1, status, NoHeaders)
    /\ SettleTool(1)

ToolsNetworkError ==
    /\ FetchThrows(1, FetchFailed)
    /\ SettleTool(1)

ToolsBody ==
    /\ pc[1] = "json"
    /\ \E data \in ToolBodies(tools[ToolOf(cur[1])].name) : JsonResolvesWith(1, data)
    /\ SettleTool(1)

ToolsBadBody ==
    /\ JsonRejects(1)
    /\ SettleTool(1)

ToolsClock ==
    /\ \E t \in {5000, FiveMinutes} : Tick(t)
    /\ UNCHANGED toolVars

NextTools ==
    ToolsInvoke \/ ToolsRespond \/ ToolsNetworkError \/ ToolsBody \/ ToolsBadBody
    \/ ToolsClock

SpecTools == Init /\ [][NextTools]_vars

-----------------------------------------------------------------------------
(* SpecReads: one caller reading two long-lived resources again and again,  *)
(* five minutes or more apart or not; each call is answered before the next *)

Version == <<"/", "version">>
ReadEndpoints == {AuthMe, Version}

ReadInvoke ==
    /\ Len(log) < MaxReadInvocations
    /\ \E e \in ReadEndpoints : MakeApiCall(1, e, NoOptions)
    /\ UNCHANGED toolVars

ReadRespond ==
    /\ FetchResolves(1, 200, NoHeaders)
    /\ UNCHANGED toolVars

ReadBody ==
    /\ JsonResolves(1)
    /\ UNCHANGED toolVars

ReadClock ==
    /\ now < MaxReadInvocations * FiveMinutes
    /\ Tick(now + FiveMinutes)
    /\ UNCHANGED toolVars

NextReads == ReadInvoke \/ ReadRespond \/ ReadBody \/ ReadClock

SpecReads == Init /\ [][NextReads]_vars

-----------------------------------------------------------------------------
(* The claims.  An invocation is its record in log; i < j means that        *)
(* invocation i was made before invocation j.                               *)

SameKey(i, j) == log[i].cacheKey = log[j].cacheKey
Finished(j) == log[j].outcome # "pending"
Within5Minutes(i, j) == log[j].at - log[i].at < 5 * 60 * 1000
(* Invocation i's record is still in the history when j is recorded *)
Retained(i, j) == j - i < maxRecentCalls
(* The invocation found a cached, non-expired entry of its key *)
FoundFresh(j) == log[j].hadEntry /\ log[j].at < log[j].entryAt + log[j].entryTtl
RejectedAsLoop(j) ==
    /\ log[j].outcome = "loop"
    /\ log[j].error.message[1] = "LOOP DETECTED"
    /\ log[j].fetches = 0

(* C1 as stated: of two invocations with the same (method, endpoint, body),
   the second less than 5 minutes after the first, the second fails with
   LoopDetected and makes no network request. *)
C1_SecondAlwaysRejected ==
    \A i, j \in DOMAIN log :
        i < j /\ SameKey(i, j) /\ Within5Minutes(i, j) => RejectedAsLoop(j)

(* C1 amended: of two invocations with the same (method, endpoint, body),
   the second less than 5 minutes after the first and with fewer than 19 other
   invocations made between them (the first one's record is still among the
   20 retained), the second fails with LoopDetected and makes no network
   request, even when a fresh cache entry of the key exists. *)
C1_SecondRejectedWhileRetained ==
    \A i, j \in DOMAIN log :
        i < j /\ SameKey(i, j) /\ Within5Minutes(i, j) /\ Retained(i, j)
            => RejectedAsLoop(j)

C1_Witness ==
    \E i, j \in DOMAIN log :
        /\ i < j /\ SameKey(i, j) /\ Within5Minutes(i, j) /\ Retained(i, j)
        /\ log[i].outcome = "ok"
        /\ FoundFresh(j)
        /\ RejectedAsLoop(j)

Separated(i, m, j) == i < m /\ m < j /\ log[m].endpoint # log[i].endpoint

(* C2 as stated: when two identical calls made within 5 minutes are separated
   by a call to another endpoint, the second identical call is not rejected
   with LoopDetected. *)
C2_SeparatedNotRejected ==
    \A i, m, j \in DOMAIN log :
        SameKey(i, j) /\ Within5Minutes(i, j) /\ Separated(i, m, j)
            => log[j].outcome # "loop"

(* C2 amended: a call to another endpoint in between changes nothing: the
   second identical call is still rejected with LoopDetected (as long as the
   first one's record is among the 20 retained). *)
C2_SeparatedStillRejected ==
    \A i, m, j \in DOMAIN log :
        SameKey(i, j) /\ Within5Minutes(i, j) /\ Separated(i, m, j) /\ Retained(i, j)
            => RejectedAsLoop(j)

C2_Witness ==
    \E i, m, j \in DOMAIN log :
        /\ SameKey(i, j) /\ Within5Minutes(i, j) /\ Separated(i, m, j)
        /\ log[i].outcome = "ok" /\ log[m].outcome = "ok"
        /\ RejectedAsLoop(j)

Concurrent(i, j) == i < j /\ i \in log[j].inFlight

(* C3 as stated: two concurrent invocations for the same uncached key both
   miss the cache and both make a network request. *)
C3_BothHitNetwork ==
    \A i, j \in DOMAIN log :
        Concurrent(i, j) /\ SameKey(i, j) /\ ~FoundFresh(j)
            => log[i].fetches >= 1 /\ log[j].fetches >= 1

(* C3 amended: two concurrent invocations for the same uncached key are not
   serialized or coalesced: the second misses the cache as well and makes its
   own network request at once, unless it is rejected with LoopDetected, as it
   is whenever the first was invoked less than 5 minutes before it and its
   record is retained. *)
C3_SecondFetchesOrIsRejected ==
    \A i, j \in DOMAIN log :
        Concurrent(i, j) /\ SameKey(i, j) /\ ~FoundFresh(j)
            => /\ log[i].fetches >= 1
               /\ log[j].outcome # "hit"
               /\ log[j].outcome = "loop" \/ log[j].fetches >= 1
               /\ Within5Minutes(i, j) /\ Retained(i, j) => RejectedAsLoop(j)

(* both requests for the key are in flight *)
C3_Witness ==
    \E p, q \in Procs :
        /\ p # q /\ pc[p] = "fetching" /\ pc[q] = "fetching"
        /\ Concurrent(cur[p], cur[q]) /\ SameKey(cur[p], cur[q])
        /\ ~FoundFresh(cur[q])

(* The retry claims are about one call; attempts holds, per fetch made, the
   status of its response, or 0 when the fetch threw. *)
NumAttempts(j) == Len(log[j].attempts)
Retryable(j, k) == log[j].attempts[k] \in config.retryableStatusCodes
Is2xx(status) == status \in 200..299
AllRetryable(j) ==
    /\ NumAttempts(j) = config.maxRetries + 1
    /\ \A k \in 1..NumAttempts(j) : Retryable(j, k)
FinalStatus(j) == log[j].attempts[NumAttempts(j)]

(* C4 as stated: when every response has a retryable status, exactly
   maxRetries + 1 fetches are made and the call then rejects with an
   HttpError carrying that status. *)
C4_ExhaustedRejectsWithHttpError ==
    \A j \in DOMAIN log :
        /\ (\A k \in 1..NumAttempts(j) : Retryable(j, k))
               => log[j].fetches <= config.maxRetries + 1
        /\ AllRetryable(j)
               => /\ log[j].fetches = config.maxRetries + 1
                  /\ log[j].outcome = "error"
                  /\ log[j].error.message = <<"HTTP", FinalStatus(j)>>

(* C4 amended: when every response has a retryable status, exactly
   maxRetries + 1 fetches are made and the call then rejects with the error
   of the final response: "HTTP <status>" carrying its status, or, when that
   status is 429, "Rate limit exceeded". *)
C4_ExhaustedRejectsWithFinalError ==
    \A j \in DOMAIN log :
        /\ log[j].fetches >= 1 /\ (\A k \in 1..NumAttempts(j) : Retryable(j, k))
               => /\ log[j].fetches <= config.maxRetries + 1
                  /\ NumAttempts(j) < config.maxRetries + 1
                         => log[j].outcome = "pending"
        /\ AllRetryable(j)
               => /\ log[j].fetches = config.maxRetries + 1
                  /\ log[j].outcome = "error"
                  /\ log[j].error.message[1] =
                        IF FinalStatus(j) = 429 THEN "Rate limit exceeded"
                        ELSE "HTTP"
                  /\ FinalStatus(j) # 429
                         => log[j].error.message[2] = FinalStatus(j)

C4_Witness ==
    \E j \in DOMAIN log :
        /\ config.maxRetries = 3
        /\ log[j].attempts = <<500, 500, 500, 500>>
        /\ log[j].fetches = 4
        /\ log[j].error.message = <<"HTTP", 500>>

EarlierFailedRetryably(j) ==
    \A k \in 1..(NumAttempts(j) - 1) : log[j].attempts[k] = 0 \/ Retryable(j, k)

(* C5: when the attempts before the k-th failed retryably and the k-th,
   k <= maxRetries + 1, returns a 2xx response, the call has made exactly k
   fetches, makes no further one, and resolves with that response's payload. *)
C5_SucceedsOnKthAttempt ==
    \A j \in DOMAIN log :
        NumAttempts(j) >= 1 /\ Is2xx(FinalStatus(j)) /\ EarlierFailedRetryably(j)
            => /\ NumAttempts(j) <= config.maxRetries + 1
               /\ log[j].fetches = NumAttempts(j)
               /\ Len(log[j].delays) = NumAttempts(j) - 1
               /\ pc[1] \notin {"fetching", "backoff"}
               /\ log[j].outcome = "ok" => log[j].result = Payload(j)
               /\ log[j].outcome = "error" => log[j].error.name = "SyntaxError"
               /\ log[j].outcome \in {"pending", "ok", "error"}

C5_Witness ==
    \E j \in DOMAIN log :
        /\ log[j].attempts = <<500, 500, 500, 200>>
        /\ config.maxRetries = 3
        /\ log[j].fetches = 4
        /\ log[j].outcome = "ok"
        /\ log[j].result = Payload(j)

FirstIsNonRetryable(j) ==
    /\ NumAttempts(j) >= 1
    /\ log[j].attempts[1] # 0
    /\ ~Is2xx(log[j].attempts[1])
    /\ ~Retryable(j, 1)

(* C6: a call whose first response has a non-2xx status outside
   retryableStatusCodes is attempted exactly once and then rejects, with no
   backoff delay. *)
C6_NonRetryableAttemptedOnce ==
    \A j \in DOMAIN log :
        FirstIsNonRetryable(j)
            => /\ log[j].fetches = 1
               /\ NumAttempts(j) = 1
               /\ log[j].delays = <<>>
               /\ now = log[j].at
               /\ log[j].outcome = "error"
               /\ pc[1] = "idle"

(* a status that the default set retries, under the custom set {500} *)
C6_Witness ==
    \E j \in DOMAIN log :
        /\ config.retryableStatusCodes = {500}
        /\ config.maxRetries > 0
        /\ log[j].attempts = <<502>>
        /\ log[j].outcome = "error"

(* C7: a fetch that throws is always retried until maxRetries + 1 attempts
   have been made; when the final attempt throws as well, the call rejects
   with that very error. *)
C7_NetworkErrorRetriedThenRethrown ==
    \A j \in DOMAIN log :
        NumAttempts(j) >= 1 /\ FinalStatus(j) = 0
            => IF NumAttempts(j) = config.maxRetries + 1
               THEN /\ log[j].outcome = "error"
                    /\ log[j].error = log[j].thrown
                    /\ log[j].error \in NetErrors
                    /\ log[j].fetches = config.maxRetries + 1
               ELSE /\ NumAttempts(j) < config.maxRetries + 1
                    /\ log[j].outcome = "pending"
                    /\ pc[1] \in {"backoff", "fetching"}

C7_Witness ==
    \E j \in DOMAIN log :
        /\ config.maxRetries = 3
        /\ log[j].attempts = <<0, 0, 0, 0>>
        /\ log[j].outcome = "error"
        /\ log[j].error = ConnectionReset

ExpectedDelay(k) ==
    IF config.initialDelayMs * 2^(k - 2) < config.maxDelayMs
    THEN config.initialDelayMs * 2^(k - 2)
    ELSE config.maxDelayMs

(* C8: the delay waited immediately before attempt k >= 2 is
   min(initialDelay * 2^(k-2), maxDelay); attempt 1 is made without delay and
   nothing is waited after the final attempt. *)
C8_BackoffDelays ==
    \A j \in DOMAIN log :
        /\ log[j].fetches >= 1 => log[j].fetchAt[1] = log[j].at
        /\ \A k \in 2..log[j].fetches :
              /\ log[j].delays[k - 1] = ExpectedDelay(k)
              /\ log[j].fetchAt[k] - log[j].fetchAt[k - 1] = ExpectedDelay(k)
        /\ Len(log[j].delays) <= config.maxRetries
        /\ Finished(j) /\ log[j].fetches >= 1
              => /\ Len(log[j].delays) = log[j].fetches - 1
                 /\ now = log[j].fetchAt[log[j].fetches]

(* the cap is reached before the third retry *)
C8_Witness ==
    \E j \in DOMAIN log :
        /\ config.initialDelayMs = 1000 /\ config.maxDelayMs = 2000
        /\ log[j].delays = <<1000, 2000, 2000>>
        /\ log[j].fetches = 4
        /\ Finished(j)

(* C9: an invocation that finds a cached, non-expired entry of its key and is
   not rejected by loop detection returns the cached data marked as a cache
   hit, without a network request. *)
C9_FreshEntryServedFromCache ==
    \A j \in DOMAIN log :
        FoundFresh(j) /\ log[j].outcome # "loop"
            => /\ log[j].outcome = "hit"
               /\ log[j].fetches = 0
               /\ log[j].result.cacheHit = TRUE
               /\ log[j].result.cachedAt = log[j].at
               /\ \A f \in DOMAIN log[j].entryData :
                     log[j].result[f] = log[j].entryData[f]

C9_Witness ==
    \E i, j \in DOMAIN log :
        /\ i < j /\ SameKey(i, j)
        /\ log[i].outcome = "ok"
        /\ FoundFresh(j)
        /\ log[j].outcome = "hit"
        /\ log[j].result.data = log[i].payload.data

ElapsedSinceStored(j) == log[j].at - log[j].entryAt

(* C10: a repeat call for "/game/time" that loop detection lets through is
   served from the cache if and only if less than 5000 ms have passed since
   the entry was stored. *)
C10_GameTimeCachedFor5000ms ==
    \A j \in DOMAIN log :
        log[j].endpoint = GameTime /\ log[j].outcome # "loop"
            => (log[j].outcome = "hit"
                   <=> log[j].hadEntry /\ ElapsedSinceStored(j) < 5000)

C10_Witness ==
    \E j \in DOMAIN log :
        /\ log[j].endpoint = GameTime
        /\ log[j].hadEntry
        /\ ElapsedSinceStored(j) > 0 /\ ElapsedSinceStored(j) < 5000
        /\ log[j].outcome = "hit"

(* at exactly 5000 ms the entry is purged and the call goes to the network *)
C10_RefetchedAt5000ms ==
    \E j \in DOMAIN log :
        /\ log[j].endpoint = GameTime
        /\ log[j].hadEntry
        /\ ElapsedSinceStored(j) = 5000
        /\ log[j].fetches >= 1

(* The ordered table of the substrings looked for and the TTL of each *)
TTLTable ==
    << <<{<<"/", "auth", "/", "me">>}, 900000>>,
       <<{<<"/", "version">>}, 3600000>>,
       <<{<<"/", "game", "/", "world-size">>}, 3600000>>,
       <<{<<"/", "game", "/", "shards", "/", "info">>}, 600000>>,
       <<{<<"/", "user", "/", "world-status">>}, 120000>>,
       <<{<<"/", "game", "/", "time">>}, 5000>>,
       <<{<<"/", "game", "/", "market", "/", "stats">>}, 60000>>,
       <<{<<"room-terrain">>}, 300000>>,
       <<{<<"room-status">>}, 60000>>,
       <<{<<"room-objects">>}, 10000>>,
       <<{<<"user", "/", "stats">>, <<"user", "/", "overview">>}, 30000>>,
       <<{<<"market">>}, 15000>> >>
OccursIn(endpoint, row) == \E pat \in TTLTable[row][1] : Includes(endpoint, pat)
Rows(endpoint) == {row \in DOMAIN TTLTable : OccursIn(endpoint, row)}
FirstRow(endpoint) == CHOOSE row \in Rows(endpoint) : \A r \in Rows(endpoint) : row <= r
TableTTL(endpoint) ==
    IF Rows(endpoint) = {} THEN 30000 ELSE TTLTable[FirstRow(endpoint)][2]
Stored(j) == log[j].outcome = "ok" /\ log[j].cacheKey \in DOMAIN responseCache

(* C11: the TTL of the cache entry stored for an endpoint is that of the
   first row of the ordered table one of whose substrings occurs in the
   endpoint, and 30 s when none occurs. *)
C11_TTLOfFirstMatchingPattern ==
    \A j \in DOMAIN log :
        Stored(j) => responseCache[log[j].cacheKey].ttl = TableTTL(log[j].endpoint)

(* '/game/market/stats', which contains 'market' as well, is kept 60 s *)
C11_Witness ==
    \E j \in DOMAIN log :
        /\ Stored(j)
        /\ log[j].endpoint = <<"/", "game", "/", "market", "/", "stats">>
        /\ Rows(log[j].endpoint) = {7, 12}
        /\ responseCache[log[j].cacheKey].ttl = 60000

-----------------------------------------------------------------------------
(* SpecOveruse: one caller asking for the same endpoint again and again,    *)
(* with three different requests, and once for another endpoint; five       *)
(* minutes may pass once.                                                   *)

OveruseRequests ==
    {<<AuthMe, NoOptions>>, <<AuthMe, PostOptions>>, <<AuthMe, OtherPostOptions>>,
     <<GameTime, NoOptions>>}

OveruseInvoke ==
    /\ Len(log) < MaxOveruseInvocations
    /\ \E r \in OveruseRequests : MakeApiCall(1, r[1], r[2])
    /\ UNCHANGED toolVars

OveruseRespond ==
    /\ FetchResolves(1, 200, NoHeaders)
    /\ UNCHANGED toolVars

OveruseBody ==
    /\ JsonResolves(1)
    /\ UNCHANGED toolVars

OveruseClock ==
    /\ Tick(FiveMinutes)
    /\ UNCHANGED toolVars

NextOveruse == OveruseInvoke \/ OveruseRespond \/ OveruseBody \/ OveruseClock

SpecOveruse == Init /\ [][NextOveruse]_vars

-----------------------------------------------------------------------------
(* The final response of an invocation, once fetchWithRetry has returned it *)
HasResponse(j) == log[j].response # NoResponse
FinalResponseStatus(j) == log[j].response.status
RetryAfterHeader(j) == log[j].response.headers.retryAfter
OtherFailure(j) ==
    /\ HasResponse(j)
    /\ ~Is2xx(FinalResponseStatus(j))
    /\ FinalResponseStatus(j) \notin {429, 401}

(* C12: a call whose final response has status 429 fails with a RateLimited
   error, of a kind of its own, that carries the value of the Retry-After
   header when the response had one. *)
C12_RateLimitedKindOn429 ==
    \A j \in DOMAIN log :
        HasResponse(j) /\ FinalResponseStatus(j) = 429
            => /\ log[j].outcome = "error"
               /\ isRateLimitError(log[j].error)
               /\ RetryAfterHeader(j) # ""
                     => \/ Property(log[j].error, "retryAfter") = ParseInt(RetryAfterHeader(j))
                        \/ log[j].error.message[2] = RetryAfterHeader(j)

(* C13: a call whose final response has status 401 fails with an
   AuthenticationFailed error (statusCode 401, code AUTH_FAILED), a kind
   apart from RateLimited and from the generic HttpError. *)
C13_AuthenticationFailedOn401 ==
    \A j \in DOMAIN log :
        HasResponse(j) /\ FinalResponseStatus(j) = 401
            => /\ log[j].outcome = "error"
               /\ isAuthenticationError(log[j].error)
               /\ ~isRateLimitError(log[j].error)
               /\ Property(log[j].error, "statusCode") = 401
               /\ Property(log[j].error, "code") = "AUTH_FAILED"

(* C14: a call whose final response is non-2xx with a status other than 429
   and 401 fails with an HttpError (a ScreepsApiError with code HTTP_ERROR)
   that has the status of the response as a field. *)
C14_HttpErrorCarriesStatus ==
    \A j \in DOMAIN log :
        OtherFailure(j)
            => /\ log[j].outcome = "error"
               /\ isScreepsApiError(log[j].error)
               /\ Property(log[j].error, "code") = "HTTP_ERROR"
               /\ Property(log[j].error, "statusCode") = FinalResponseStatus(j)

(* The rate-limit headers of an invocation's final response, and the
   snapshot they stand for *)
AllThreeHeaders(headers) ==
    headers.limit # "" /\ headers.remaining # "" /\ headers.reset # ""
CarriesAllThree(j) == HasResponse(j) /\ AllThreeHeaders(log[j].response.headers)
SnapshotOf(headers) ==
    [limit |-> ParseInt(headers.limit), remaining |-> ParseInt(headers.remaining),
     resetTime |-> ParseInt(headers.reset)]
Exposes(formatted, info) ==
    /\ formatted.metadata.rateLimitInfo = info
    /\ formatted.text.rateLimitStatus =
           [remaining |-> info.remaining, limit |-> info.limit,
            resetsAt |-> info.resetTime]
(* The step in which makeApiCall receives the final response of slot p *)
ResponseStep(p) ==
    /\ pc[p] = "fetching"
    /\ log[cur[p]].response = NoResponse
    /\ log'[cur[p]].response # NoResponse
(* The step in which the call of slot p resolves and its result is formatted *)
ResolveStep(p) ==
    /\ pc[p] = "json"
    /\ pc'[p] = "idle"
    /\ log'[cur[p]].outcome = "ok"

(* C15 as stated: after a non-cached call whose response carries all three
   rate-limit headers, the metadata of its formatted result exposes the
   values of that response. *)
C15_FormattedExposesOwnResponse ==
    \A j \in DOMAIN log :
        log[j].outcome = "ok" /\ CarriesAllThree(j)
            => Exposes(log[j].formatted, SnapshotOf(log[j].response.headers))

C15_Step ==
    \A p \in Procs :
        /\ ResponseStep(p) /\ AllThreeHeaders(log'[cur[p]].response.headers)
              => lastRateLimitInfo' = SnapshotOf(log'[cur[p]].response.headers)
        /\ (/\ ResolveStep(p)
            /\ CarriesAllThree(cur[p])
            /\ lastRateLimitInfo = SnapshotOf(log[cur[p]].response.headers))
              => Exposes(log'[cur[p]].formatted,
                         SnapshotOf(log[cur[p]].response.headers))

(* C15 amended: when a response carrying all three headers is received the
   snapshot becomes the values of that response, and the formatted result of
   the call exposes them provided the snapshot has not been replaced or
   cleared (by another call's response or cache hit) while the call was
   reading its body. *)
C15_SnapshotTakenAndExposed == [][C15_Step]_vars

C15_Witness ==
    \E j \in DOMAIN log :
        /\ log[j].outcome = "ok"
        /\ log[j].response.headers = RateHeaders
        /\ lastRateLimitInfo = [limit |-> 100, remaining |-> 5, resetTime |-> 1700000000]
        /\ log[j].formatted.metadata.rateLimitInfo.remaining = 5
        /\ log[j].formatted.text.rateLimitStatus.limit = 100

C16_LeavesSnapshot ==
    \A p \in Procs :
        ResponseStep(p) /\ ~AllThreeHeaders(log'[cur[p]].response.headers)
            => lastRateLimitInfo' = lastRateLimitInfo

(* C16 as stated: a response that does not carry all three rate-limit headers
   leaves the snapshot as it was before. *)
C16_SnapshotUntouched == [][C16_LeavesSnapshot]_vars

C16_ClearsSnapshot ==
    \A p \in Procs :
        ResponseStep(p) /\ ~AllThreeHeaders(log'[cur[p]].response.headers)
            => lastRateLimitInfo' = Undefined

(* C16 amended: a response that does not carry all three rate-limit headers
   clears the snapshot: after it the snapshot is absent, whatever it was. *)
C16_SnapshotCleared == [][C16_ClearsSnapshot]_vars

(* a first call has stored a snapshot and returned; the response of the next
   call carries two of the three headers *)
C16_Witness ==
    \E i, j \in DOMAIN log :
        /\ j = i + 1 /\ Len(log) = j /\ i \notin log[j].inFlight
        /\ log[i].outcome = "ok" /\ log[i].response.headers = RateHeaders
        /\ log[i].formatted.metadata.rateLimitInfo.remaining = 5
        /\ HasResponse(j) /\ log[j].response.headers = PartialHeaders
        /\ lastRateLimitInfo = Undefined

RateLimitLines(formatted) ==
    {w \in formatted.metadata.warnings \cup formatted.metadata.suggestedNextActions :
        w[1] \in {"CRITICAL", "WARNING", "Rate limit warning"}}

(* The step in which an invocation is served from the cache and returns *)
CacheHitStep ==
    /\ Len(log') = Len(log) + 1
    /\ log'[Len(log')].outcome = "hit"

C17_HitStep ==
    CacheHitStep
        => /\ lastRateLimitInfo' = Undefined
           /\ log'[Len(log')].formatted.metadata.rateLimitInfo = Undefined
           /\ log'[Len(log')].formatted.text.rateLimitStatus = Undefined
           /\ log'[Len(log')].formatted.text.cacheStatus = "Cache HIT"
           /\ RateLimitLines(log'[Len(log')].formatted) = {}

(* C17: a call served from the cache leaves the snapshot absent when it
   returns, and the result formatted for it carries no rate-limit data. *)
C17_CacheHitClearsSnapshot == [][C17_HitStep]_vars

(* the call before the cache hit had stored a snapshot *)
C17_Witness ==
    \E i, j \in DOMAIN log :
        /\ j = i + 1 /\ i \notin log[j].inFlight
        /\ log[i].outcome = "ok" /\ log[i].response.headers = RateHeaders
        /\ RateLimitLines(log[i].formatted) # {}
        /\ log[j].outcome = "hit"
        /\ lastRateLimitInfo = Undefined

(* The step in which makeApiCall is invoked, and the CallRecord of the
   invocation *)
InvocationStep == Len(log') = Len(log) + 1
CallRecord(call) ==
    [endpoint |-> call.endpoint, cacheKey |-> call.cacheKey, timestamp |-> call.at]
Front(s) == SubSeq(s, 1, Len(s) - 1)
Last(s) == s[Len(s)]

C18_Step ==
    IF InvocationStep
    THEN LET call == log'[Len(log')]
         IN  /\ call.at = now
             /\ recentCalls' # <<>>
             /\ Last(recentCalls') = CallRecord(call)
             /\ Front(recentCalls') = IF Len(recentCalls) < maxRecentCalls
                                      THEN recentCalls ELSE Tail(recentCalls)
             /\ call.outcome \in {"loop", "hit", "pending"}
             /\ call.outcome = "loop" <=> detectLoops(recentCalls', now).isLoop
    ELSE recentCalls' = recentCalls

(* C18: every invocation of makeApiCall appends exactly one CallRecord
   (endpoint, cache key, current time) to the history, and does so before the
   loop check and the cache decision, whether the call is then rejected as a
   loop, served from the cache, or sent to the network to succeed or fail;
   no other step changes the history. *)
C18_OneRecordPerInvocation == [][C18_Step]_vars

(* three invocations of three different outcomes, one of them rejected as a
   loop, each with its record in the history *)
C18_Witness ==
    /\ Len(log) = 3 /\ Len(recentCalls) = 3
    /\ \A j \in 1..3 : recentCalls[j] = CallRecord(log[j])
    /\ {log[j].outcome : j \in 1..3} \in
           {{"ok", "hit", "loop"}, {"ok", "error", "loop"}}

(* The records of the last n invocations, in invocation order *)
RecordsOfLast(n) == [k \in 1..n |-> CallRecord(log[Len(log) - n + k])]

(* C19: the call history never holds more than 20 records, and they are the
   records of the most recent invocations in invocation order: all of them
   up to the 20th, and from the 21st on every append drops the oldest record
   and nothing else. *)
C19_HistoryIsLast20 ==
    /\ Len(recentCalls) <= 20
    /\ Len(recentCalls) = Min(20, Len(log))
    /\ recentCalls = RecordsOfLast(Min(20, Len(log)))

(* the 21st invocation has dropped the record of the first *)
C19_Witness ==
    /\ Len(log) = 21
    /\ Len(recentCalls) = 20
    /\ recentCalls[1] = CallRecord(log[2])
    /\ recentCalls[20] = CallRecord(log[21])
    /\ \A k \in DOMAIN recentCalls : recentCalls[k] # CallRecord(log[1])

(* The endpoints occurring 5 times or more in a history, whatever the age of
   the records, and the warnings they call for *)
TimesInHistory(calls, e) == Cardinality({i \in DOMAIN calls : calls[i].endpoint = e})
Overused(calls) ==
    {e \in {calls[i].endpoint : i \in DOMAIN calls} : TimesInHistory(calls, e) >= 5}
OveruseWarnings(calls) ==
    {<<"OVERUSE", e, TimesInHistory(calls, e)>> : e \in Overused(calls)}
(* Two records of one cache key, both younger than five minutes *)
KeyRepeated(calls, t) ==
    \E i, j \in DOMAIN calls :
        /\ i < j
        /\ calls[i].cacheKey = calls[j].cacheKey
        /\ calls[i].timestamp > t - FiveMinutes
        /\ calls[j].timestamp > t - FiveMinutes
OverusedAtInvocation == InvocationStep /\ Overused(recentCalls') # {}
OverusedAtResolve(p) == ResolveStep(p) /\ Overused(recentCalls) # {}
CarriesOveruseWarnings(formatted, calls) ==
    /\ OveruseWarnings(calls) \subseteq formatted.metadata.warnings
    /\ OveruseWarnings(calls) \subseteq formatted.text.warnings

C20_Step ==
    /\ OverusedAtInvocation =>
          (LET call == log'[Len(log')]
               loopDetection == detectLoops(recentCalls', now)
           IN  /\ OveruseWarnings(recentCalls') \subseteq loopDetection.warnings
               /\ loopDetection.isLoop <=> KeyRepeated(recentCalls', now)
               /\ call.outcome = "loop" <=> KeyRepeated(recentCalls', now)
               /\ call.outcome = "hit" =>
                     (/\ CarriesOveruseWarnings(call.formatted, recentCalls')
                      /\ ~call.formatted.isError))
    /\ \A p \in Procs :
          OverusedAtResolve(p) =>
              (/\ CarriesOveruseWarnings(log'[cur[p]].formatted, recentCalls)
               /\ log'[cur[p]].formatted.isError <=> KeyRepeated(recentCalls, now))

(* C20: an endpoint occurring 5 times or more in the retained history, old
   records included, only attaches an overuse warning: the invocation is
   rejected as a loop exactly when a cache key is repeated within five
   minutes, and the result formatted for a call that succeeded carries the
   warning. *)
C20_OveruseIsAdvisory == [][C20_Step]_vars

(* the fifth call of the endpoint succeeds over the network, the first of
   them five minutes old *)
C20_Witness ==
    /\ Len(log) = 5
    /\ \A j \in 1..5 : log[j].endpoint = AuthMe
    /\ log[1].at + FiveMinutes <= log[5].at
    /\ log[5].outcome = "ok"
    /\ <<"OVERUSE", AuthMe, 5>> \in log[5].formatted.metadata.warnings
    /\ ~log[5].formatted.isError

(* A query string read back: the text after the "?", cut at every "&", each
   piece cut at its "=" *)
KeptEntries(params) ==
    SelectSeq(params, LAMBDA e : e[2] \notin {Undefined, Null})
BuiltEndpoint(i) == log[tools[i].call].endpoint
QueryOf(i) ==
    SubSeq(BuiltEndpoint(i), Len(ToolBase(tools[i].name)) + 2, Len(BuiltEndpoint(i)))

(* C21: buildEndpointWithQuery(E, P) returns E unchanged when P is empty or
   holds undefined/null values only; otherwise it is E, "?", and one
   key=value piece, joined by "&", for every key of P whose value is neither
   undefined nor null, in the insertion order of P, the value stringified
   (and form-encoded). *)
C21_QueryKeepsDefinedInOrder ==
    \A i \in DOMAIN tools :
        LET base == ToolBase(tools[i].name)
            kept == KeptEntries(tools[i].params)
            pieces == SplitOn(QueryOf(i), "&")
        IN  IF kept = <<>>
            THEN BuiltEndpoint(i) = base
            ELSE /\ Len(BuiltEndpoint(i)) > Len(base) + 1
                 /\ SubSeq(BuiltEndpoint(i), 1, Len(base) + 1) = base \o <<"?">>
                 /\ Len(pieces) = Len(kept)
                 /\ \A k \in DOMAIN kept :
                        SplitOn(pieces[k], "=")
                            = <<kept[k][1], FormEncode(String(kept[k][2]))>>

(* {encoded: false, room: 'W7N3'}: the false value is kept, before room *)
C21_Witness ==
    \E i \in DOMAIN tools :
        /\ tools[i].params = <<<<(<<"encoded">>), Bool(FALSE)>>, <<(<<"room">>), Str(<<"W7N3">>)>>>>
        /\ BuiltEndpoint(i) = RoomTerrain \o <<"?", "encoded", "=", "false", "&",
                                              "room", "=", "W7N3">>
        /\ log[tools[i].call].outcome = "ok"

(* What a cache hit returned, without the markers _cacheHit and _cachedAt *)
PayloadData(result) ==
    [f \in DOMAIN result \ {"cacheHit", "cachedAt"} |-> result[f]]
(* The invocations of the history l that stored a payload under the key of
   invocation j before j was made *)
StoredBefore(l, j) ==
    {i \in 1..(j - 1) : l[i].cacheKey = l[j].cacheKey /\ l[i].outcome = "ok"}
LastStoredBefore(l, j) ==
    CHOOSE i \in StoredBefore(l, j) : \A k \in StoredBefore(l, j) : k <= i

C22_Step ==
    CacheHitStep =>
        LET j == Len(log')
            call == log'[j]
            key == call.cacheKey
        IN  /\ key \in DOMAIN responseCache
            /\ PayloadData(call.result) = responseCache[key].data
            /\ StoredBefore(log', j) # {}
            /\ PayloadData(call.result) = log'[LastStoredBefore(log', j)].payload
            /\ responseCache' = responseCache

(* C22: every read served from the cache, however many there were before it,
   returns the payload that was stored under the key, and leaves the cache
   entry (data, storedAt, ttl) and the rest of the cache as they were. *)
C22_HitsReturnStoredPayload == [][C22_Step]_vars

(* the payload stored by the first call is returned by two later reads *)
C22_Witness ==
    /\ Len(log) >= 3
    /\ log[1].outcome = "ok" /\ log[2].outcome = "hit" /\ log[3].outcome = "hit"
    /\ log[2].cacheKey = log[1].cacheKey /\ log[3].cacheKey = log[1].cacheKey
    /\ PayloadData(log[2].result) = log[1].payload
    /\ PayloadData(log[3].result) = log[1].payload
    /\ log[3].entryAt = log[2].entryAt

-----------------------------------------------------------------------------
(* get_room_objects.  Tool call i has returned when the makeApiCall it made  *)
(* has settled; its result is what the handler made of that call.            *)

ToolCall(i) == log[tools[i].call]
ToolReturned(i) == ToolCall(i).outcome # "pending"
RoomObjectsResult(i) == handleGetRoomObjects(ToolCall(i), tools[i].params)

(* The types a call asks for, and the objects of the answer that pass *)
RequestedTypes(params) ==
    IF params.objectType = Undefined THEN ObjectTypes
    ELSE IF params.objectType = Str(<<"spawn">>) THEN {"spawn"}
    ELSE {"spawn", "creep"}
FilteredObjects(i) ==
    SelectSeq(ToolCall(i).result.objects,
              LAMBDA obj : obj.type \in RequestedTypes(tools[i].params))
OfType(objects, t) ==
    SelectSeq(objects, LAMBDA obj : obj.type = (IF t = "unknown" THEN "" ELSE t))
TypeNames(objects) ==
    {IF objects[k].type = "" THEN "unknown" ELSE objects[k].type : k \in DOMAIN objects}

AnsweredWithObjects(i) ==
    /\ tools[i].name = "get_room_objects"
    /\ ToolCall(i).outcome = "ok"
    /\ "objects" \in DOMAIN ToolCall(i).result

GroupedAndPaged(i) ==
    /\ AnsweredWithObjects(i)
    /\ tools[i].params.groupByType = Bool(TRUE)
    /\ tools[i].params.page # Undefined

WithoutPaging(params) == [params EXCEPT !.page = Undefined, !.pageSize = Undefined]

C24_Grouped(i) ==
    LET r == RoomObjectsResult(i)
    IN  /\ ~r.isError
        /\ DOMAIN r.data.objects = TypeNames(FilteredObjects(i))
        /\ \A t \in TypeNames(FilteredObjects(i)) :
               r.data.objects[t] = OfType(FilteredObjects(i), t)
        /\ "pagination" \notin DOMAIN r.data.metadata
        /\ r = handleGetRoomObjects(ToolCall(i), WithoutPaging(tools[i].params))

(* C24: when get_room_objects is given both groupByType and page, its result
   holds all the objects that pass the type filter, grouped by type, it has no
   pagination metadata, and it is the result the call would have had without
   page and pageSize. *)
C24_GroupingTakesPrecedence ==
    \A i \in DOMAIN tools : GroupedAndPaged(i) => C24_Grouped(i)

C24_Witness ==
    \E i \in DOMAIN tools :
        /\ GroupedAndPaged(i)
        /\ tools[i].params.page = Num(2)
        /\ tools[i].params.pageSize = Num(1)
        /\ tools[i].params.objectType # Undefined
        /\ Cardinality(TypeNames(FilteredObjects(i))) = 2
        /\ Len(FilteredObjects(i)) < Len(ToolCall(i).result.objects)
        /\ Len(FilteredObjects(i)) > 2

(* Call i asked for page 1 and returned it, and the later call j asks for
   page 2 of the same room with the same page size *)
NextPageAfterFirst(i, j) ==
    /\ i < j
    /\ tools[i].name = "get_room_objects" /\ tools[j].name = "get_room_objects"
    /\ tools[i].params.page = Num(1)
    /\ tools[j].params = [tools[i].params EXCEPT !.page = Num(2)]
    /\ ToolReturned(i)
    /\ ~RoomObjectsResult(i).isError
    /\ ToolReturned(j)

SecondPage(objects, pageSize) ==
    [k \in 1..(Min(2 * pageSize, Len(objects)) - Min(pageSize, Len(objects))) |->
        objects[pageSize + k]]

(* C23: after get_room_objects has returned page 1 of a room, a following call
   for page 2 of the same room with the same page size returns the second page
   of the room's objects and is not an error result. *)
C23_SecondPageFollowsFirst ==
    \A i, j \in DOMAIN tools :
        NextPageAfterFirst(i, j) =>
            /\ ~RoomObjectsResult(j).isError
            /\ RoomObjectsResult(j).data.objects
                   = SecondPage(PagingObjects, tools[j].params.pageSize.num)

(* A call that asks for a page and not for grouping *)
Paged(i) ==
    /\ AnsweredWithObjects(i)
    /\ tools[i].params.groupByType = Undefined
    /\ tools[i].params.page # Undefined

(* the page size in force: the one given, 50 when none is given *)
PageSizeOf(params) ==
    IF params.pageSize = Undefined THEN 50
    ELSE IF params.pageSize.num > 200 THEN 200
    ELSE IF params.pageSize.num < 1 THEN 1
    ELSE params.pageSize.num

(* tp = max(1, ceil(n / s)) *)
IsTotalPages(tp, n, s) ==
    IF n = 0 THEN tp = 1 ELSE (tp - 1) * s < n /\ n <= tp * s

(* The objects of the pages q..tp of the answer call i got, one after the other *)
RECURSIVE PagesFrom(_, _, _)
PagesFrom(i, q, tp) ==
    IF q > tp THEN <<>>
    ELSE handleGetRoomObjects(ToolCall(i),
                              [tools[i].params EXCEPT !.page = Num(q)]).data.objects
             \o PagesFrom(i, q + 1, tp)

C25_Page(i) ==
    LET r == RoomObjectsResult(i)
        filtered == FilteredObjects(i)
        n == Len(filtered)
        s == PageSizeOf(tools[i].params)
        pg == tools[i].params.page.num
    IN  /\ ~r.isError
        /\ "pagination" \in DOMAIN r.data.metadata
        /\ LET pagination == r.data.metadata.pagination
           IN  /\ pagination.page = pg
               /\ pagination.pageSize = s
               /\ IsTotalPages(pagination.totalPages, n, s)
               /\ pagination.hasNextPage <=> pg < pagination.totalPages
               /\ pagination.hasPreviousPage <=> pg > 1
               /\ r.data.objects = [k \in 1..(Min(pg * s, n) - Min((pg - 1) * s, n)) |->
                                        filtered[(pg - 1) * s + k]]
               /\ PagesFrom(i, 1, pagination.totalPages) = filtered

(* C25: a get_room_objects call with page p >= 1 and page size s (50 when not
   given) over the n objects that pass the type filter reports
   totalPages = max(1, ceil(n/s)), returns the filtered objects at positions
   (p-1)*s+1 .. min(p*s, n), reports hasNextPage iff p < totalPages and
   hasPreviousPage iff p > 1, and the pages 1..totalPages one after the other
   are the filtered objects, each once. *)
C25_PaginationArithmetic ==
    \A i \in DOMAIN tools : Paged(i) => C25_Page(i)

C25_Witness ==
    \E i \in DOMAIN tools :
        /\ Paged(i)
        /\ tools[i].params.page = Num(2)
        /\ tools[i].params.pageSize = Num(2)
        /\ tools[i].params.objectType = Str(<<"spawn">>)
        /\ Len(FilteredObjects(i)) = 3
        /\ Len(ToolCall(i).result.objects) = 4
        /\ Len(RoomObjectsResult(i).data.objects) = 1
        /\ RoomObjectsResult(i).data.metadata.pagination.hasPreviousPage
        /\ ~RoomObjectsResult(i).data.metadata.pagination.hasNextPage

-----------------------------------------------------------------------------
(* The registry.  What the protocol server gets from tool call i *)

RegistryResult(i) == RegisteredTool(tools[i].name, ToolCall(i), tools[i].params)
HandlerThrew(i) == ToolHandler(tools[i].name, ToolCall(i), tools[i].params).threw

(* { content: [{ type: 'text', text }], isError } *)
IsToolResult(value) == value # Undefined /\ "isError" \in DOMAIN value

(* C26: every invocation of a registered tool that has settled resolved to a
   ToolResult; when its handler threw, the result has isError = true, and
   nothing is thrown to the protocol server. *)
C26_EveryToolResolvesToToolResult ==
    \A i \in DOMAIN tools :
        ToolReturned(i) =>
            /\ ~RegistryResult(i).threw
            /\ IsToolResult(RegistryResult(i).value)
            /\ HandlerThrew(i) => RegistryResult(i).value.isError

(* The sign-in of tool call i succeeded and the answer carried a token *)
SignedInWithToken(i) ==
    /\ tools[i].name = "auth_signin"
    /\ ToolCall(i).outcome = "ok"
    /\ Truthy(Get(ToolCall(i).result, "token"))

LastSignIn(i) ==
    /\ SignedInWithToken(i)
    /\ \A j \in DOMAIN tools : j > i => ~SignedInWithToken(j)

(* the invocations of makeApiCall made after tool call i returned that sent a
   request *)
RequestsAfter(i) ==
    {j \in DOMAIN log : j > tools[i].call /\ log[j].fetches > 0}

(* C27: once auth_signin has succeeded with an answer that carries a token,
   the token of the configuration is that token, and every request of a later
   makeApiCall carries it as its X-Token header. *)
C27_SignInSetsToken ==
    \A i \in DOMAIN tools :
        LastSignIn(i) =>
            /\ token = ToolCall(i).result.token
            /\ \A j \in RequestsAfter(i) : log[j].xToken = ToolCall(i).result.token

-----------------------------------------------------------------------------
(* Termination of makeApiCall *)

Made(j) == Len(log) >= j
Settled(j) == Len(log) >= j /\ log[j].outcome # "pending"

(* never more than maxRetries + 1 calls of fetch, nor than maxRetries waits *)
RetriesBounded ==
    \A j \in DOMAIN log :
        /\ log[j].fetches <= config.maxRetries + 1
        /\ Len(log[j].delays) <= config.maxRetries
        /\ Len(log[j].attempts) <= config.maxRetries + 1

EveryCallSettles == \A j \in 1..(MaxRetryInvocations + 1) : Made(j) ~> Settled(j)

(* C28 as stated: when every call of fetch returns or throws in the end, every
   invocation of makeApiCall resolves or rejects in the end, after at most
   maxRetries + 1 calls of fetch and at most maxRetries backoff waits. *)
C28_SettlesWhenFetchDoes == EveryCallSettles /\ []RetriesBounded

(* C28: when every call of fetch returns or throws in the end and every
   reading of the body of a successful response ends, with the payload or with
   an error, every invocation of makeApiCall resolves or rejects in the end,
   after at most maxRetries + 1 calls of fetch and at most maxRetries backoff
   waits. *)
C28_SettlesWhenFetchAndBodyDo ==
    WF_vars(BodySettles) => (EveryCallSettles /\ []RetriesBounded)

C28_Witness ==
    /\ config.maxRetries = MaxRetriesTried
    /\ Settled(1)
    /\ log[1].outcome = "error"
    /\ log[1].fetches = config.maxRetries + 1
    /\ Len(log[1].delays) = config.maxRetries
    /\ log[1].attempts[1] = 0
    /\ log[1].attempts[Len(log[1].attempts)] = 502

-----------------------------------------------------------------------------
(* Concurrency of the backoff *)

(* The call of slot p is suspended in a backoff delay or in a fetch *)
Suspended(p) == pc[p] \in {"backoff", "fetching"}

(* While the call of slot p is suspended, the other slot q can take its next
   step, whichever it is *)
CanProceedBeside(p, q) ==
    /\ (pc[q] = "idle" /\ Len(log) < MaxBackoffInvocations) => ENABLED BackoffInvoke
    /\ pc[q] = "fetching" => ENABLED BackoffRespondTo(q)
    /\ pc[q] = "json" => ENABLED BackoffBodyOf(q)

(* C29: while a call is suspended in a backoff delay or in a fetch, another
   makeApiCall on the same client can be started, can be answered and can
   return: no step of it waits for the suspended call. *)
C29_BackoffDoesNotBlock ==
    \A p, q \in Procs : (p # q /\ Suspended(p)) => CanProceedBeside(p, q)

(* call 1 is in its first backoff delay, and call 2, made while call 1 was
   waiting, has gone to the network and returned *)
C29_Witness ==
    /\ Len(log) >= 2
    /\ pc[1] = "backoff" /\ cur[1] = 1
    /\ log[1].fetches = 1 /\ log[1].outcome = "pending"
    /\ now < wakeAt[1]
    /\ log[2].outcome = "ok"
    /\ log[2].fetches = 1
    /\ 1 \in log[2].inFlight
    /\ log[2].at >= log[1].at

-----------------------------------------------------------------------------
(* The frame of a rejected call *)

(* The step is an invocation that is rejected as a loop *)
LoopRejectionStep ==
    /\ Len(log') = Len(log) + 1
    /\ log'[Len(log')].outcome = "loop"

(* A record of a rejected call is final: nothing is fetched or retried for it *)
RejectedStaysRejected ==
    \A j \in DOMAIN log : log[j].outcome = "loop" => log'[j] = log[j]

C30_Step ==
    /\ LoopRejectionStep =>
           /\ log'[Len(log')].fetches = 0
           /\ responseCache' = responseCache
           /\ lastRateLimitInfo' = lastRateLimitInfo
           /\ <<pc, cur, attempt, wakeAt, resp>>' = <<pc, cur, attempt, wakeAt, resp>>
           /\ SubSeq(log', 1, Len(log)) = log
    /\ RejectedStaysRejected

(* C30: an invocation rejected with LoopDetected issues no network request and
   is never retried; apart from the record of the call it leaves the cache
   contents and the rate-limit snapshot exactly as they were before it. *)
C30_LoopRejectionChangesNothing == [][C30_Step]_vars

-----------------------------------------------------------------------------
(* The life of a cache entry *)

(* The step creates the entry of key k or replaces it *)
Written(k) ==
    /\ k \in DOMAIN responseCache'
    /\ k \notin DOMAIN responseCache \/ responseCache'[k] # responseCache[k]

(* The step is the end of invocation j: its network call was answered 2xx and
   the body has been parsed *)
EndsInSuccess(j) ==
    /\ log[j].outcome = "pending"
    /\ log'[j].outcome = "ok"
    /\ log'[j].fetches >= 1
    /\ Ok(log'[j].response.status)
    /\ log'[j].payload # Undefined

(* The step is the end of invocation j in an error, or its rejection as a loop *)
EndsInError(l, lp, j) ==
    /\ j \in DOMAIN lp
    /\ lp[j].outcome \in {"error", "loop"}
    /\ j \in DOMAIN l => l[j].outcome = "pending"

C31_Step ==
    /\ \A k \in DOMAIN responseCache' :
           Written(k) =>
               \E j \in DOMAIN log :
                   /\ EndsInSuccess(j)
                   /\ log[j].cacheKey = k
                   /\ responseCache'[k] = [data |-> log'[j].payload,
                                           timestamp |-> now,
                                           ttl |-> getCacheTTL(log[j].endpoint)]
    /\ \A j \in DOMAIN log' :
           EndsInError(log, log', j) => \A k \in DOMAIN responseCache' : ~Written(k)

(* C31: a cache entry is created or replaced only by the step in which a
   network call that was answered 2xx has had its JSON body parsed, and then
   the entry of the call's key holds the payload, the time of storing and the
   TTL of the endpoint; a step in which a call ends in an error (non-2xx final
   status, network error, JSON parse failure, loop rejection) writes no entry. *)
C31_EntriesWrittenOnSuccessOnly == [][C31_Step]_vars

(* a key stored, then stored again five minutes later, with a failed call of
   the key in between *)
C31_Witness ==
    /\ Len(log) >= 3
    /\ SameKey(1, 2) /\ SameKey(2, 3)
    /\ log[1].outcome = "ok" /\ log[2].outcome \in {"error", "loop"}
    /\ log[3].outcome = "ok"
    /\ log[3].hadEntry
    /\ responseCache[log[3].cacheKey].timestamp > log[1].at
    /\ responseCache[log[3].cacheKey].data = log[3].payload

(* The step is an invocation of makeApiCall: it looks its key up *)
LookupStep == Len(log') = Len(log) + 1
LookedUp == log'[Len(log')].cacheKey

Expired(cache, k, t) == k \in DOMAIN cache /\ t >= cache[k].timestamp + cache[k].ttl

Kept(k) == k \in DOMAIN responseCache' /\ responseCache'[k] = responseCache[k]

C32_Step ==
    /\ LookupStep =>
           /\ Expired(responseCache, LookedUp, now) => LookedUp \notin DOMAIN responseCache'
           /\ \A k \in DOMAIN responseCache :
                  (k # LookedUp \/ ~Expired(responseCache, k, now)) => Kept(k)
    /\ ~LookupStep =>
           \A k \in DOMAIN responseCache : k \in DOMAIN responseCache'

(* C32: the lookup of a key whose entry has expired (now >= storedAt + ttl)
   removes that entry; the lookup removes or changes no entry of another key
   and no fresh entry, and a step that is not a lookup removes no entry, so an
   expired entry stays until its key is looked up. *)
C32_LazyPurge == [][C32_Step]_vars

(* the entry of /game/time expired, stayed while /auth/me was looked up, and
   was removed by the next lookup of /game/time *)
C32_Witness ==
    /\ Len(log) >= 3
    /\ log[1].endpoint = GameTime /\ log[1].outcome = "ok"
    /\ log[2].endpoint = AuthMe /\ log[2].at >= log[1].at + 5000
    /\ log[3].endpoint = GameTime
    /\ log[3].hadEntry
    /\ log[3].at >= log[3].entryAt + log[3].entryTtl
    /\ log[3].cacheKey \notin DOMAIN responseCache
    /\ log[2].cacheKey \in DOMAIN responseCache

-----------------------------------------------------------------------------
(* The window of the loop detection *)

(* Every earlier record of invocation j's key is five minutes old or older *)
OwnKeyOutOfWindow(j) ==
    \A i \in 1..(j - 1) : SameKey(i, j) => ~Within5Minutes(i, j)

(* Two records of a key other than j's are held in the history, and are less
   than five minutes old, when j is checked *)
OtherKeyDuplicated(j) ==
    \E a, b \in 1..(j - 1) :
        /\ a < b /\ SameKey(a, b) /\ ~SameKey(a, j)
        /\ Retained(a, j) /\ Within5Minutes(a, j)

ProceedsPastLoopCheck(j) ==
    /\ log[j].outcome # "loop"
    /\ FoundFresh(j) => log[j].outcome = "hit" /\ log[j].fetches = 0
    /\ ~FoundFresh(j) => log[j].fetches >= 1

(* C33: a call all of whose earlier records of the same key are five minutes
   old or older, made when no other key has two records within the window, is
   not rejected as a loop: it is served from the cache when the entry of its
   key is still fresh, and goes to the network otherwise. *)
C33_OldRecordsDoNotCount ==
    \A j \in DOMAIN log :
        (OwnKeyOutOfWindow(j) /\ ~OtherKeyDuplicated(j)) => ProceedsPastLoopCheck(j)

(* /auth/me read again exactly five minutes after its first read, and served
   from the cache *)
C33_Witness ==
    \E i, j \in DOMAIN log :
        /\ i < j /\ SameKey(i, j)
        /\ log[j].at - log[i].at = FiveMinutes
        /\ OwnKeyOutOfWindow(j) /\ ~OtherKeyDuplicated(j)
        /\ log[j].outcome = "hit"
        /\ j - i >= 2

-----------------------------------------------------------------------------
(* Whose repetition a rejection answers *)

(* An earlier record of invocation j's own key is held in the history, and is
   less than five minutes old, when j is checked *)
OwnKeyRepeated(j) ==
    \E i \in 1..(j - 1) : SameKey(i, j) /\ Retained(i, j) /\ Within5Minutes(i, j)

(* C34: a call is rejected with LoopDetected only if its own cache key occurs
   at least twice among the history records of the last 5 minutes (its own
   record included); a call whose key was never used before is never
   rejected, whatever other keys were repeated earlier. *)
C34_RejectedOnlyForOwnKey ==
    \A j \in DOMAIN log : RejectedAsLoop(j) => OwnKeyRepeated(j)

(* A call of a key never used before is rejected *)
C34_FreshKeyRejected ==
    \E j \in DOMAIN log :
        /\ RejectedAsLoop(j)
        /\ \A i \in 1..(j - 1) : ~SameKey(i, j)

-----------------------------------------------------------------------------
(* The history when a call is let through *)

(* makeApiCall passes the loop check in this step: it serves a cache hit or
   hands the request to fetchWithRetry *)
LetThrough ==
    /\ Len(log') = Len(log) + 1
    /\ log'[Len(log')].outcome \in {"hit", "pending"}

(* No key has two records of the history calls with a timestamp above
   t - 5 min *)
NoKeyTwice(calls, t) ==
    \A a, b \in DOMAIN calls :
        (a < b /\ calls[a].cacheKey = calls[b].cacheKey)
            => calls[a].timestamp <= t - FiveMinutes

(* Invocation i is waiting for its response while this step starts a request
   of the same key *)
InFlightWith(i) ==
    /\ log[i].outcome = "pending"
    /\ log'[Len(log')].outcome = "pending"
    /\ log[i].cacheKey = log'[Len(log')].cacheKey

InterveningCalls(i) == Len(log') - i - 1

C35_StepOlder ==
    LetThrough =>
        /\ NoKeyTwice(recentCalls', now)
        /\ \A i \in DOMAIN log :
              InFlightWith(i) =>
                  \/ now - log[i].at > FiveMinutes
                  \/ InterveningCalls(i) >= maxRecentCalls - 1

(* C35 as stated: whenever makeApiCall serves a cache hit or starts a network
   request, no cache key occurs twice among the history records of the last 5
   minutes; two requests of one key are in flight together only if the
   earlier call's record is older than 5 minutes or was evicted by 19 or
   more intervening calls. *)
C35_NoDuplicateWhenLetThrough == [][C35_StepOlder]_vars

C35_Step ==
    LetThrough =>
        /\ NoKeyTwice(recentCalls', now)
        /\ \A i \in DOMAIN log :
              InFlightWith(i) =>
                  \/ now - log[i].at >= FiveMinutes
                  \/ InterveningCalls(i) >= maxRecentCalls - 1

(* C35 amended: whenever makeApiCall passes the loop check, serving a cache
   hit or handing a request to fetchWithRetry, no cache key has two records
   in the history with a timestamp above now - 5 min; two requests of one key
   are in flight together only if the earlier call's record is 5 minutes old
   or older, or was evicted by 19 or more intervening calls. *)
C35_NoDuplicateInWindow == [][C35_Step]_vars

(* A call let through while the history holds two records of one key, the
   older one exactly five minutes old, whose request is still in flight *)
C35_Witness ==
    \E i, j \in DOMAIN log :
        /\ i < j /\ j = Len(log) /\ SameKey(i, j)
        /\ log[i].outcome = "pending" /\ log[j].outcome = "pending"
        /\ log[j].at - log[i].at = FiveMinutes
        /\ \E a, b \in DOMAIN recentCalls :
              a < b /\ recentCalls[a].cacheKey = recentCalls[b].cacheKey

-----------------------------------------------------------------------------
(* The caller who keeps repeating a call *)

(* The latest earlier invocation of the key that this step invokes *)
IsPreviousUse(i) ==
    /\ i \in DOMAIN log
    /\ log[i].cacheKey = log'[Len(log')].cacheKey
    /\ \A k \in DOMAIN log : k > i => log[k].cacheKey # log[i].cacheKey

(* The step repeats the key less than 5 minutes after its previous use, with
   fewer than 19 other calls in between *)
RepeatsSoon(i) ==
    /\ IsPreviousUse(i)
    /\ now - log[i].at < FiveMinutes
    /\ Len(log) - i < maxRecentCalls - 1

ThisCallRecorded ==
    /\ recentCalls' # <<>>
    /\ recentCalls'[Len(recentCalls')] =
           [endpoint |-> log'[Len(log')].endpoint,
            cacheKey |-> log'[Len(log')].cacheKey, timestamp |-> now]

C36_Step ==
    InvocationStep =>
        /\ ThisCallRecorded
        /\ \A i \in DOMAIN log :
              RepeatsSoon(i) =>
                  /\ log'[Len(log')].outcome = "loop"
                  /\ log'[Len(log')].error.message[1] = "LOOP DETECTED"
                  /\ log'[Len(log')].fetches = 0
                  /\ log'[Len(log')].result = Undefined
                  /\ <<pc, cur>>' = <<pc, cur>>

(* C36: every call, rejected or not, is recorded in the history, and a call
   that repeats a key less than 5 minutes after the previous call of that
   key, rejected or not, with fewer than 19 other calls in between, is
   rejected with LoopDetected: it is not served from the cache and sends no
   request, whether the cache entry of the key is fresh, expired or absent. *)
C36_RepeatsRejectedForever == [][C36_Step]_vars

(* The third call of a key is rejected five minutes or more after the first:
   only the record of the rejected second call is within the window, and the
   cache entry of the key had expired before the second call *)
C36_Witness ==
    /\ Len(log) >= 3
    /\ SameKey(1, 2) /\ SameKey(2, 3)
    /\ log[1].outcome = "ok"
    /\ log[2].outcome = "loop" /\ log[2].hadEntry /\ ~FoundFresh(2)
    /\ log[3].outcome = "loop"
    /\ log[3].at - log[1].at >= FiveMinutes
    /\ log[3].at - log[2].at < FiveMinutes

-----------------------------------------------------------------------------
(* The snapshot between the extraction and the formatting *)

(* What extractRateLimitInfo makes of the headers of a response *)
DataOf(response) ==
    IF AllThreeHeaders(response.headers) THEN SnapshotOf(response.headers)
    ELSE Undefined

(* The call of slot p has taken the snapshot from its response and is reading
   the body, before and after the step *)
ReadingBody(p) == pc[p] = "json" /\ pc'[p] = "json"

C37_StepOwn ==
    \A p \in Procs :
        /\ ReadingBody(p) => lastRateLimitInfo' = lastRateLimitInfo
        /\ ResolveStep(p) =>
               log'[cur[p]].formatted.metadata.rateLimitInfo
                   = DataOf(log[cur[p]].response)

(* C37 as stated: the rate-limit data in the formatted result of a call is
   the data extracted from the call's own response; while the call reads its
   body, no step of another call changes the snapshot. *)
C37_ReportsOwnResponse == [][C37_StepOwn]_vars

C37_Step ==
    \A p \in Procs :
        /\ (ResponseStep(p) /\ pc'[p] = "json")
               => lastRateLimitInfo' = DataOf(log'[cur[p]].response)
        /\ (ReadingBody(p) /\ lastRateLimitInfo' # lastRateLimitInfo)
               => \/ CacheHitStep /\ lastRateLimitInfo' = Undefined
                  \/ \E q \in Procs \ {p} :
                        /\ ResponseStep(q)
                        /\ lastRateLimitInfo' = DataOf(log'[cur[q]].response)
        /\ ResolveStep(p) =>
               log'[cur[p]].formatted.metadata.rateLimitInfo = lastRateLimitInfo

(* C37 amended: the rate-limit data in the formatted result of a call is the
   snapshot held when the result is formatted.  The snapshot is the data of
   the call's own response when the body read starts; while the body is read
   it is replaced by the data of every response another call receives, and
   cleared by every cache hit, and by nothing else. *)
C37_ReportsSharedSnapshot == [][C37_Step]_vars

(* A call whose response carried no rate-limit header has resolved, and its
   formatted result reports the data of the other call's response *)
C37_Witness ==
    \E i, j \in DOMAIN log :
        /\ i # j
        /\ log[j].outcome = "ok"
        /\ log[j].response.headers = NoHeaders
        /\ log[i].response.headers = RateHeaders
        /\ log[j].formatted.metadata.rateLimitInfo = SnapshotOf(RateHeaders)

-----------------------------------------------------------------------------
(* calculate_distance: the tool that makes no API call.  A room name is the *)
(* sequence of its characters.                                              *)

Abs(n) == IF n < 0 THEN -n ELSE n

IsDigit(c) == c \in {"0", "1", "2", "3", "4", "5", "6", "7", "8", "9"}

DigitValue(c) ==
    CASE c = "0" -> 0 [] c = "1" -> 1 [] c = "2" -> 2 [] c = "3" -> 3
      [] c = "4" -> 4 [] c = "5" -> 5 [] c = "6" -> 6 [] c = "7" -> 7
      [] c = "8" -> 8 [] c = "9" -> 9

(* parseInt of a string of digits *)
RECURSIVE ParseDigits(_)
ParseDigits(str) ==
    IF str = <<>> THEN 0
    ELSE 10 * ParseDigits(SubSeq(str, 1, Len(str) - 1)) + DigitValue(str[Len(str)])

(* roomName.match(/^([EW])(\d+)([NS])(\d+)$/): the positions the third group
   can have; there is one at most *)
RoomNameSplits(roomName) ==
    {i \in 3..(Len(roomName) - 1) :
        /\ roomName[1] \in {"E", "W"}
        /\ \A k \in 2..(i - 1) : IsDigit(roomName[k])
        /\ roomName[i] \in {"N", "S"}
        /\ \A k \in (i + 1)..Len(roomName) : IsDigit(roomName[k])}

InvalidRoomName(roomName) ==
    [name |-> "Error", message |-> <<"Invalid room name: ">> \o roomName]

parseRoom(roomName) ==
    IF RoomNameSplits(roomName) = {} THEN Throws(InvalidRoomName(roomName))
    ELSE LET i == CHOOSE k \in RoomNameSplits(roomName) : TRUE
             xNum == ParseDigits(SubSeq(roomName, 2, i - 1))
             yNum == ParseDigits(SubSeq(roomName, i + 1, Len(roomName)))
         IN  Returns([x |-> IF roomName[1] = "E" THEN xNum ELSE -(xNum + 1),
                      y |-> IF roomName[i] = "N" THEN yNum ELSE -(yNum + 1)])

(* The euclidean distance is kept as the number whose square root it is *)
distanceData(params, fromCoords, toCoords) ==
    LET deltaX == Abs(toCoords.x - fromCoords.x)
        deltaY == Abs(toCoords.y - fromCoords.y)
    IN  [from |-> params.from, to |-> params.to,
         fromCoords |-> fromCoords, toCoords |-> toCoords,
         deltaX |-> deltaX, deltaY |-> deltaY,
         chebyshevDistance |-> Max(deltaX, deltaY),
         manhattanDistance |-> deltaX + deltaY,
         euclideanDistance |-> [sqrt |-> deltaX * deltaX + deltaY * deltaY]]

createToolResult(text, isError) == [text |-> text, isError |-> isError]

handleCalculateDistance(params, info, calls, t) ==
    LET from == parseRoom(params.from)
        to == parseRoom(params.to)
    IN  IF from.threw
        THEN createToolResult(<<"Error calculating distance: ">> \o from.error.message,
                              TRUE)
        ELSE IF to.threw
        THEN createToolResult(<<"Error calculating distance: ">> \o to.error.message,
                              TRUE)
        ELSE createEnhancedToolResult(
                 distanceData(params, from.value, to.value),
                 <<"calculate_distance", "(">> \o params.from \o <<",", " ">>
                     \o params.to \o <<")">>,
                 FALSE, info, calls, t)

(* The tool is invoked: nothing of the client changes *)
CalculateDistance(params) ==
    /\ tools' = Append(tools, [name |-> "calculate_distance", params |-> params,
                               at |-> now,
                               result |-> handleCalculateDistance(
                                   params, lastRateLimitInfo, recentCalls, now)])
    /\ UNCHANGED <<now, config, responseCache, lastRateLimitInfo, recentCalls,
                   pc, cur, attempt, wakeAt, resp, log, token>>

-----------------------------------------------------------------------------
(* SpecDistance: calculate_distance invoked among interleaved API calls     *)

MaxDistanceApiCalls == 2
MaxCalculations == 1

E1N8 == <<"E", "1", "N", "8">>
W0S12 == <<"W", "0", "S", "1", "2">>
RoomNamesGiven == {E1N8, W0S12, <<"E", "1", "8">>}

DistanceInvoke ==
    /\ Len(log) < MaxDistanceApiCalls
    /\ \E p \in Procs, e \in Endpoints : MakeApiCall(p, e, NoOptions)
    /\ UNCHANGED toolVars

DistanceRespond ==
    /\ \E p \in Procs : FetchResolves(p, 200, NoHeaders)
    /\ UNCHANGED toolVars

DistanceBody ==
    /\ \E p \in Procs : JsonResolves(p)
    /\ UNCHANGED toolVars

DistanceClock ==
    /\ Tick(FiveMinutes)
    /\ UNCHANGED toolVars

DistanceCalculate ==
    /\ Len(tools) < MaxCalculations
    /\ \E from \in RoomNamesGiven, to \in RoomNamesGiven :
          CalculateDistance([from |-> from, to |-> to])

NextDistance ==
    DistanceInvoke \/ DistanceRespond \/ DistanceBody \/ DistanceClock
    \/ DistanceCalculate

SpecDistance == Init /\ [][NextDistance]_vars

-----------------------------------------------------------------------------
(* The error mark of a result formatted by createEnhancedToolResult *)

ValidRoomName(roomName) == RoomNameSplits(roomName) # {}

(* Some key has two records in the history calls with a timestamp above
   t - 5 min *)
SomeKeyTwice(calls, t) ==
    \E a, b \in DOMAIN calls :
        /\ a < b /\ calls[a].cacheKey = calls[b].cacheKey
        /\ calls[a].timestamp > t - FiveMinutes

(* The step invokes calculate_distance with two valid room names *)
DistanceStep ==
    /\ Len(tools') = Len(tools) + 1
    /\ ValidRoomName(tools'[Len(tools')].params.from)
    /\ ValidRoomName(tools'[Len(tools')].params.to)

(* No invocation was made since the one of slot p *)
NoCallSince(p) == cur[p] = Len(log)

(* C38 as stated: a result built by createEnhancedToolResult with
   isError = false for an operation that succeeded is never marked as an
   error: neither that of a handler whose makeApiCall resolved, under any
   interleaving, nor that of calculate_distance with valid room names,
   whatever the history holds. *)
C38_SuccessNeverMarkedError ==
    /\ \A j \in DOMAIN log :
          log[j].outcome \in {"ok", "hit"} => ~log[j].formatted.isError
    /\ \A i \in DOMAIN tools :
          (ValidRoomName(tools[i].params.from) /\ ValidRoomName(tools[i].params.to))
              => ~tools[i].result.isError

C38_Step ==
    /\ \A p \in Procs :
          ResolveStep(p) =>
              /\ log'[cur[p]].formatted.isError = SomeKeyTwice(recentCalls, now)
              /\ NoCallSince(p) => ~log'[cur[p]].formatted.isError
    /\ CacheHitStep => ~log'[Len(log')].formatted.isError
    /\ DistanceStep =>
          tools'[Len(tools')].result.isError = SomeKeyTwice(recentCalls, now)

(* C38 amended: a result built by createEnhancedToolResult with
   isError = false is marked as an error exactly when, as it is formatted,
   some cache key has two records within the last 5 minutes in the history.
   The result of a cache hit, and of a call that resolves with no invocation
   made since its own, is not marked; the result of a call that resolves
   after a later invocation repeated a key, and that of calculate_distance
   with valid room names while the history holds such a repetition, is. *)
C38_MarkedWhenHistoryLoops == [][C38_Step]_vars

(* calculate_distance of two valid room names has returned a result marked
   as an error, and so has a call whose makeApiCall resolved *)
C38_Witness ==
    /\ \E i \in DOMAIN tools :
          /\ tools[i].params = [from |-> E1N8, to |-> W0S12]
          /\ tools[i].result.isError
    /\ \E j \in DOMAIN log : log[j].outcome = "ok" /\ log[j].formatted.isError

-----------------------------------------------------------------------------
(* SpecCredentials: the token of the configuration is replaced between the  *)
(* calls of one endpoint                                                    *)

(* ConfigManager.setToken(token), and updateConfig({token}) *)
setToken(newToken) ==
    /\ token' = newToken
    /\ UNCHANGED <<now, config, responseCache, lastRateLimitInfo, recentCalls,
                   pc, cur, attempt, wakeAt, resp, log, tools>>

MaxCredentialCalls == 3

Tokens == {EnvToken, NewToken}

CredentialsInvoke ==
    /\ Len(log) < MaxCredentialCalls
    /\ \E p \in Procs : MakeApiCall(p, AuthMe, NoOptions)
    /\ UNCHANGED toolVars

CredentialsRespond ==
    /\ \E p \in Procs : FetchResolves(p, 200, NoHeaders)
    /\ UNCHANGED toolVars

CredentialsBody ==
    /\ \E p \in Procs : JsonResolves(p)
    /\ UNCHANGED toolVars

CredentialsClock ==
    /\ Tick(FiveMinutes)
    /\ UNCHANGED toolVars

CredentialsSetToken == \E t \in Tokens \ {token} : setToken(t)

NextCredentials ==
    CredentialsInvoke \/ CredentialsRespond \/ CredentialsBody
    \/ CredentialsClock \/ CredentialsSetToken

SpecCredentials == Init /\ [][NextCredentials]_vars

-----------------------------------------------------------------------------
(* The credentials of cached data *)

C39_Step ==
    CacheHitStep =>
        LET j == Len(log')
        IN  /\ StoredBefore(log', j) # {}
            /\ log'[LastStoredBefore(log', j)].xToken = token

(* C39: the data a cache hit returns was fetched with the token that is
   configured when the hit is served; after the token was changed no entry
   fetched with the previous token is returned as a hit. *)
C39_HitsFetchedUnderCurrentToken == [][C39_Step]_vars

(* /auth/me was fetched and cached with one token and is served from the
   cache while another token is configured *)
C39_StaleCredentialsServed ==
    \E i, j \in DOMAIN log :
        /\ i < j /\ SameKey(i, j)
        /\ log[i].outcome = "ok" /\ log[i].xToken = EnvToken
        /\ log[j].outcome = "hit"
        /\ PayloadData(log[j].result) = log[i].payload
        /\ token = NewToken
        /\ now < log[i].entryAt + 15 * 60 * 1000

-----------------------------------------------------------------------------
(* SpecSnapshot: calls retried once, answered with or without rate-limit    *)
(* headers, or failing in the network                                       *)

MaxSnapshotCalls == 2

SpentHeaders == [limit |-> "100", remaining |-> "60", reset |-> "1700000000",
                 retryAfter |-> ""]

SnapshotResponses ==
    {<<200, SpentHeaders>>, <<429, RateHeaders>>, <<404, SpentHeaders>>,
     <<500, NoHeaders>>}

SnapshotInvoke ==
    /\ Len(log) < MaxSnapshotCalls
    /\ \E p \in Procs, e \in RateEndpoints : MakeApiCall(p, e, NoOptions)
    /\ UNCHANGED toolVars

SnapshotRespond ==
    /\ \E p \in Procs, r \in SnapshotResponses : FetchResolves(p, r[1], r[2])
    /\ UNCHANGED toolVars

SnapshotNetworkError ==
    /\ \E p \in Procs : FetchThrows(p, FetchFailed)
    /\ UNCHANGED toolVars

SnapshotTimer ==
    /\ \E p \in Procs : BackoffElapses(p)
    /\ UNCHANGED toolVars

SnapshotBody ==
    /\ \E p \in Procs : JsonResolves(p)
    /\ UNCHANGED toolVars

NextSnapshot ==
    SnapshotInvoke \/ SnapshotRespond \/ SnapshotNetworkError \/ SnapshotTimer
    \/ SnapshotBody

SpecSnapshot == InitBackoff /\ [][NextSnapshot]_vars

-----------------------------------------------------------------------------
(* The snapshot and the outcome of the network call *)

(* fetch of slot p settles in this step: with a response, or by throwing *)
FetchAnswered(p) ==
    /\ pc[p] = "fetching"
    /\ Len(log'[cur[p]].attempts) = Len(log[cur[p]].attempts) + 1
LastAttempt(p) == log'[cur[p]].attempts[Len(log'[cur[p]].attempts)]
FetchThrew(p) == FetchAnswered(p) /\ LastAttempt(p) = 0
(* fetchWithRetry starts the backoff of another attempt *)
Retried(p) == pc'[p] = "backoff"

C40_Step ==
    \A p \in Procs :
        /\ ResponseStep(p) =>
               /\ lastRateLimitInfo' = DataOf(log'[cur[p]].response)
               /\ ~Ok(log'[cur[p]].response.status) => log'[cur[p]].outcome = "error"
        /\ (FetchAnswered(p) /\ Retried(p)) => lastRateLimitInfo' = lastRateLimitInfo
        /\ FetchThrew(p) =>
               /\ lastRateLimitInfo' = lastRateLimitInfo
               /\ ~Retried(p) => /\ log'[cur[p]].outcome = "error"
                                 /\ log'[cur[p]].error = log'[cur[p]].thrown

(* C40: the snapshot is set from the final response of a network call before
   the response is classified: a non-2xx final response replaces the
   snapshot with the values of its three rate-limit headers (and clears it
   when one is missing) although the call then fails; a response that is
   retried, and a fetch that throws, on the last attempt or before, leave the
   snapshot unchanged. *)
C40_SnapshotFromFinalResponse == [][C40_Step]_vars

(* A call has failed with a final 429 after one retry, the other call with
   the network error of its last attempt, and the snapshot holds the values
   of the headers of the 429 *)
C40_Witness ==
    \E i, j \in DOMAIN log :
        /\ i # j
        /\ log[i].outcome = "error"
        /\ log[i].attempts = <<500, 429>>
        /\ log[i].response.headers = RateHeaders
        /\ log[j].outcome = "error"
        /\ log[j].attempts = <<0, 0>>
        /\ log[j].thrown = FetchFailed
        /\ lastRateLimitInfo = SnapshotOf(RateHeaders)

====
